---- MODULE Spec2Model ----
(***************************************************************************)
(* fishroom: the message bus between the per-network adapters (IRC,        *)
(* Telegram, XMPP, Discourse Babble), the rich-text pipeline of the        *)
(* adapters and their text functions.  Strings are sequences of            *)
(* one-character strings; the IRC control bytes are the characters "^B"    *)
(* "^C" "^]" "^_" "^O"; a literal piece of markup that an adapter writes   *)
(* into its output is one element of several characters.                   *)
(***************************************************************************)
EXTENDS Integers, Sequences, FiniteSets, TLC

VARIABLES
    queue,      \* broker: direction -> list of serialized items
    brokerUp,   \* whether the broker can be reached
    clock,      \* wall clock read by get_now_date_time()
    arrived,    \* direction -> Messages in the order the broker took them
    sent,       \* reader unit -> Messages it handed to bus.publish, in order
    seen,       \* consumer unit -> Messages its message_stream() yielded
    running,    \* consumer unit -> its loop is alive
    perr,       \* reader unit -> outcome of its last publish
    attempts,   \* reader unit -> number of pushes tried by its last publish
    hold,       \* relay core: the Message it took and has not yet forwarded
    taken,      \* consumer unit -> items its message_stream() popped
    fpc,        \* formatting pipeline: position
    fr,         \* formatting pipeline: RichText under test
    fs,         \* formatting pipeline: string under test
    fwire,      \* formatting pipeline: rendered string
    fback,      \* formatting pipeline: parsed RichText
    fopt,       \* formatting pipeline: the other arguments of the call
    tpc,        \* Telegram reader: position in message_stream
    offset,     \* Telegram reader: the offset of the next getUpdates
    tries,      \* Telegram reader: getUpdates requests made by _flush
    texc,       \* Telegram reader: the exception that ended message_stream
    server,     \* Telegram server: the updates it holds, oldest first
    yielded,    \* Telegram reader: the Messages yielded, oldest first
    resp,       \* Telegram reader: the response to its last getUpdates
    twire,      \* Telegram adapter: the last text handed to sendMessage
    mem,        \* a MemNickStore
    redis,      \* the hashes behind a RedisNickStore
    rets,       \* what the last call returned, from either store
    stk,        \* the sticker URL store and the last upload_sticker call
    pausing,    \* writer unit -> it is in the sleep that follows a send
    lastOut     \* writer unit -> outcome of its last send

busVars == <<queue, brokerUp, clock, arrived, sent, seen, running, perr,
             attempts, hold, taken>>
fmtVars == <<fpc, fr, fs, fwire, fback, fopt>>
tgVars == <<tpc, offset, tries, texc, server, yielded, resp, twire>>
nickVars == <<mem, redis, rets, stk>>
sendVars == <<pausing, lastOut>>
restVars == <<tgVars, nickVars, sendVars>>
vars == <<queue, brokerUp, clock, arrived, sent, seen, running, perr,
          attempts, hold, taken, fpc, fr, fs, fwire, fback, fopt,
          tpc, offset, tries, texc, server, yielded, resp, twire,
          mem, redis, rets, stk, pausing, lastOut>>

-----------------------------------------------------------------------------
(* Bounds of the model *)

MaxEvents == 2
MaxRuns == 2
MaxRawLen == 3
MaxTextLen == 3
MaxPieces == 3

-----------------------------------------------------------------------------
(* Characters *)

BOLD == "^B"
COLOR == "^C"
ITALIC == "^]"
UNDERLINE == "^_"
RESET == "^O"

CtrlBytes == {BOLD, COLOR, ITALIC, UNDERLINE, RESET}

DigitChars == <<"0", "1", "2", "3", "4", "5", "6", "7", "8", "9">>

IsDigit(c) == \E i \in 1..10 : DigitChars[i] = c

DigitVal(c) == (CHOOSE i \in 1..10 : DigitChars[i] = c) - 1

\* "{}".format(n) for a colour index: decimal, no padding
FormatInt(n) ==
    IF n < 10 THEN <<DigitChars[n + 1]>>
    ELSE <<DigitChars[(n \div 10) + 1], DigitChars[(n % 10) + 1]>>

\* characters a user can type in the model
Alphabet == {"a", "5", ","}

RECURSIVE StringsUpTo(_, _)
StringsUpTo(S, n) ==
    IF n = 0 THEN {<<>>}
    ELSE LET shorter == StringsUpTo(S, n - 1)
         IN shorter \cup {Append(t, c) : t \in shorter, c \in S}

-----------------------------------------------------------------------------
(* Style model *)

MaxColor == 16
NoBg == -1

NoColor == [set |-> FALSE, fg |-> 0, bg |-> NoBg]

Color(fg, bg) == [set |-> TRUE, fg |-> fg, bg |-> bg]

TextStyle(color, bold, italic, underline) ==
    [color |-> color, bold |-> bold, italic |-> italic, underline |-> underline]

Normal == TextStyle(NoColor, FALSE, FALSE, FALSE)

is_bold(ts) == ts.bold
is_italic(ts) == ts.italic
is_underline(ts) == ts.underline
has_color(ts) == ts.color.set

is_normal(ts) ==
    ~ts.bold /\ ~ts.italic /\ ~ts.underline /\ ~ts.color.set

Run(ts, text) == <<ts, text>>

RECURSIVE toPlain(_)
toPlain(rich_text) ==
    IF rich_text = <<>> THEN <<>>
    ELSE rich_text[1][2] \o toPlain(Tail(rich_text))

\* Python truthiness of Color.bg: None and 0 are both false
Truthy(n) == n # NoBg /\ n # 0

-----------------------------------------------------------------------------
(* IRC renderer: IRCHandle.formatRichText *)

\* the control prefix of one non-normal run
IrcColorArg(ts) ==
    IF Truthy(ts.color.bg)
    THEN FormatInt(ts.color.fg) \o <<",">> \o FormatInt(ts.color.bg)
    ELSE FormatInt(ts.color.fg)

IrcCtrl(ts) ==
    (IF is_bold(ts) THEN <<BOLD>> ELSE <<>>)
    \o (IF is_italic(ts) THEN <<ITALIC>> ELSE <<>>)
    \o (IF is_underline(ts) THEN <<UNDERLINE>> ELSE <<>>)
    \o (IF has_color(ts) THEN <<COLOR>> \o IrcColorArg(ts) ELSE <<>>)

\* a run that is not closed by the reset code
IrcRun_NoReset(ts, text) ==
    IF text = <<>> THEN <<>>
    ELSE IF is_normal(ts) THEN text
    ELSE IrcCtrl(ts) \o text

\* a run that takes the plain branch whenever it is neither bold nor coloured
IrcRun_PlainUnlessBold(ts, text) ==
    IF text = <<>> THEN <<>>
    ELSE IF ~is_bold(ts) /\ ~has_color(ts) THEN text
    ELSE IrcCtrl(ts) \o text \o <<RESET>>

IrcRun(ts, text) ==
    IF text = <<>> THEN <<>>
    ELSE IF is_normal(ts) THEN text
    ELSE IrcCtrl(ts) \o text \o <<RESET>>

RECURSIVE formatRichText(_)
formatRichText(rich_text) ==
    IF rich_text = <<>> THEN <<>>
    ELSE IrcRun(rich_text[1][1], rich_text[1][2])
         \o formatRichText(Tail(rich_text))

-----------------------------------------------------------------------------
(* IRC parser: TextFormatter.parseIRC, a left-to-right scan that keeps the  *)
(* current style, the text of the open run and the runs closed so far.      *)

\* the value of the digit group (one or two digits) that starts at s[i],
\* and the number of characters it takes; <<0, 0>> when s[i] is no digit
DigitGroup(s, i) ==
    IF i > Len(s) \/ ~IsDigit(s[i]) THEN <<0, 0>>
    ELSE IF i + 1 <= Len(s) /\ IsDigit(s[i + 1])
         THEN <<10 * DigitVal(s[i]) + DigitVal(s[i + 1]), 2>>
         ELSE <<DigitVal(s[i]), 1>>

\* closing the open run: a run with empty text is not kept
CloseRun(runs, style, buf) ==
    IF buf = <<>> THEN runs ELSE Append(runs, Run(style, buf))

\* the colour code at s[i] = COLOR: the style it sets and the position after
\* it.  A colour sequence that names no palette entry is malformed: the
\* control byte is dropped and what follows is read as text.
ColorCode(s, i, style) ==
    LET fg == DigitGroup(s, i + 1)
        j == i + 1 + fg[2]
        bg == IF j <= Len(s) /\ s[j] = "," THEN DigitGroup(s, j + 1)
              ELSE <<0, 0>>
    IN  IF fg[2] = 0 \/ fg[1] > MaxColor THEN <<style, i + 1>>
        ELSE IF bg[2] = 0 \/ bg[1] > MaxColor
             THEN <<[style EXCEPT !.color = Color(fg[1], NoBg)], j>>
             ELSE <<[style EXCEPT !.color = Color(fg[1], bg[1])],
                    j + 1 + bg[2]>>

RECURSIVE ParseFrom(_, _, _, _, _)
ParseFrom(s, i, style, buf, runs) ==
    IF i > Len(s)
    THEN IF buf # <<>> \/ runs = <<>> THEN Append(runs, Run(style, buf))
         ELSE runs
    ELSE LET c == s[i]
             closed == CloseRun(runs, style, buf)
         IN  CASE c = BOLD ->
                    ParseFrom(s, i + 1, [style EXCEPT !.bold = ~@], <<>>, closed)
               [] c = ITALIC ->
                    ParseFrom(s, i + 1, [style EXCEPT !.italic = ~@], <<>>, closed)
               [] c = UNDERLINE ->
                    ParseFrom(s, i + 1, [style EXCEPT !.underline = ~@], <<>>, closed)
               [] c = RESET ->
                    ParseFrom(s, i + 1, Normal, <<>>, closed)
               [] c = COLOR ->
                    LET cc == ColorCode(s, i, style)
                    IN ParseFrom(s, cc[2], cc[1], <<>>, closed)
               [] OTHER ->
                    ParseFrom(s, i + 1, style, Append(buf, c), runs)

\* a scan that keeps the empty run it opens with
parseIRC_LeadingRun(s) ==
    ParseFrom(s, 1, Normal, <<>>, <<Run(Normal, <<>>)>>)

parseIRC(s) == ParseFrom(s, 1, Normal, <<>>, <<>>)

\* the string with its control bytes removed
RECURSIVE StripCtrl(_)
StripCtrl(s) ==
    IF s = <<>> THEN <<>>
    ELSE (IF s[1] \in CtrlBytes THEN <<>> ELSE <<s[1]>>) \o StripCtrl(Tail(s))


-----------------------------------------------------------------------------
(* Message and its wire form *)

PyNone == "<None>"

NoUrl == [present |-> FALSE, val |-> <<>>]
Url(u) == [present |-> TRUE, val |-> u]

NoRichText == [present |-> FALSE, val |-> <<>>]
SomeRichText(r) == [present |-> TRUE, val |-> r]

NoOpt == [present |-> FALSE, msg_id |-> 0, username |-> PyNone]
Opt(msg_id, username) ==
    [present |-> TRUE, msg_id |-> msg_id, username |-> username]

Message(channel, sender, receiver, content, mtype, date, time, rich_text, media_url, opt) ==
    [channel |-> channel, sender |-> sender, receiver |-> receiver,
     content |-> content, mtype |-> mtype, date |-> date, time |-> time,
     rich_text |-> rich_text, media_url |-> media_url, opt |-> opt]

\* a wire form that leaves out rich_text
dumps_NoRichText(m) ==
    << <<"channel", m.channel>>, <<"sender", m.sender>>,
       <<"receiver", m.receiver>>, <<"content", m.content>>,
       <<"mtype", m.mtype>>, <<"date", m.date>>, <<"time", m.time>>,
       <<"media_url", m.media_url>>, <<"opt", m.opt>> >>

\* Message.dumps: the field-tagged wire form, one <<tag, value>> per attribute
dumps(m) ==
    << <<"channel", m.channel>>, <<"sender", m.sender>>,
       <<"receiver", m.receiver>>, <<"content", m.content>>,
       <<"mtype", m.mtype>>, <<"date", m.date>>, <<"time", m.time>>,
       <<"rich_text", m.rich_text>>, <<"media_url", m.media_url>>,
       <<"opt", m.opt>> >>

HasField(item, tag) == \E i \in 1..Len(item) : item[i][1] = tag

Field(item, tag) == item[CHOOSE i \in 1..Len(item) : item[i][1] = tag][2]

FieldOr(item, tag, default) ==
    IF HasField(item, tag) THEN Field(item, tag) ELSE default

RequiredFields ==
    {"channel", "sender", "receiver", "content", "mtype", "date", "time"}

\* whether Message.loads can decode the item
Decodable(item) == \A tag \in RequiredFields : HasField(item, tag)

\* Message.loads: unknown tags are ignored, a missing optional tag is None
loads(item) ==
    Message(Field(item, "channel"), Field(item, "sender"),
            Field(item, "receiver"), Field(item, "content"),
            Field(item, "mtype"), Field(item, "date"), Field(item, "time"),
            FieldOr(item, "rich_text", NoRichText),
            FieldOr(item, "media_url", NoUrl),
            FieldOr(item, "opt", NoOpt))

\* an item on a queue that is no Message: a tagged form cut short, without
\* the attributes a Message must have
CorruptItems ==
    { << <<"channel", "irc">>, <<"sender", "eve">> >> }

-----------------------------------------------------------------------------
(* The bus *)

im2fish == "im2fish"
fish2im == "fish2im"
Directions == {im2fish, fish2im}

\* the units of concurrency: one reader and one writer thread per adapter,
\* and the relay core between the two directions
Readers ==
    {"IRC2Fishroom", "Telegram2Fishroom", "XMPP2Fishroom", "Babble2Fishroom"}
Writers ==
    {"Fishroom2IRC", "Fishroom2Telegram", "Fishroom2XMPP", "Fishroom2Babble"}
Core == "fishroom"
Publishers == Readers \cup {Core}
Consumers == Writers \cup {Core}
Units == Readers \cup Writers \cup {Core}

\* a publish that pushes at the end the consumers pop from
publish_Lifo(d, msg) ==
    IF brokerUp
    THEN [q |-> [queue EXCEPT ![d] = <<dumps(msg)>> \o @],
          err |-> "ok", tries |-> 1]
    ELSE [q |-> queue, err |-> "BrokerUnavailable", tries |-> 1]

\* MessageBus.publish: serialize and push; the result is the new queues, the
\* error raised ("ok" when none) and the number of pushes tried
publish(d, msg) ==
    IF brokerUp
    THEN [q |-> [queue EXCEPT ![d] = Append(@, dumps(msg))],
          err |-> "ok", tries |-> 1]
    ELSE [q |-> queue, err |-> "BrokerUnavailable", tries |-> 1]

\* a decoder that fills every tag an item lacks with a default
LenientLoads(item) ==
    Message(FieldOr(item, "channel", PyNone), FieldOr(item, "sender", PyNone),
            FieldOr(item, "receiver", PyNone), FieldOr(item, "content", <<>>),
            FieldOr(item, "mtype", "Text"), FieldOr(item, "date", 0),
            FieldOr(item, "time", 0),
            FieldOr(item, "rich_text", NoRichText),
            FieldOr(item, "media_url", NoUrl),
            FieldOr(item, "opt", NoOpt))

\* a message_stream that yields whatever it pops
message_stream_Lenient(d) ==
    [q |-> [queue EXCEPT ![d] = Tail(@)],
     yields |-> <<LenientLoads(Head(queue[d]))>>]

\* MessageBus.message_stream, one turn of its loop: the blocking pop gives the
\* oldest item; an item that cannot be decoded is logged and dropped
message_stream(d) ==
    LET item == Head(queue[d])
    IN [q |-> [queue EXCEPT ![d] = Tail(@)],
        yields |-> IF Decodable(item) THEN <<loads(item)>> ELSE <<>>]

-----------------------------------------------------------------------------
(* Text functions: xss.cooked_unescape, xss.md_escape, html.escape and      *)
(* html.unescape.  A text is a sequence of characters; a literal piece of   *)
(* markup that the program itself writes is one element of several          *)
(* characters.                                                              *)

\* the position of the first ">" at or after i, 0 when there is none
FirstGt(s, i) ==
    IF \E j \in i..Len(s) : s[j] = ">"
    THEN CHOOSE j \in i..Len(s) :
            s[j] = ">" /\ \A k \in i..(j - 1) : s[k] # ">"
    ELSE 0

\* re.sub(r'<[^>]+>', '', s)
RECURSIVE StripTags(_)
StripTags(s) ==
    IF s = <<>> THEN <<>>
    ELSE LET close == FirstGt(s, 2)
         IN IF s[1] = "<" /\ close >= 3
            THEN StripTags(SubSeq(s, close + 1, Len(s)))
            ELSE <<s[1]>> \o StripTags(Tail(s))

\* the characters that end the name of a character reference
NameStop == {" ", "\n", "<", "&", "#", ";"}

\* the named references of html.entities.html5 that the texts of the model
\* can spell, with and without the closing ";"
Html5Names ==
    { <<"a", "m", "p">>, <<"l", "t">>, <<"g", "t">>, <<"q", "u", "o", "t">> }

Html5Char(name) ==
    CASE name = <<"a", "m", "p">> -> "&"
      [] name = <<"l", "t">> -> "<"
      [] name = <<"g", "t">> -> ">"
      [] name = <<"q", "u", "o", "t">> -> "\""

\* a name of the table, bare or followed by ";"
InHtml5(g) ==
    \/ g \in Html5Names
    \/ /\ Len(g) >= 2
       /\ g[Len(g)] = ";"
       /\ SubSeq(g, 1, Len(g) - 1) \in Html5Names

Html5Of(g) ==
    IF g \in Html5Names THEN Html5Char(g)
    ELSE Html5Char(SubSeq(g, 1, Len(g) - 1))

HexDigits ==
    <<"0", "1", "2", "3", "4", "5", "6", "7", "8", "9",
      "a", "b", "c", "d", "e", "f">>

IsHex(c) == \E i \in 1..16 : HexDigits[i] = c

HexVal(c) == (CHOOSE i \in 1..16 : HexDigits[i] = c) - 1

\* int(digits, base)
RECURSIVE IntOf(_, _)
IntOf(digits, base) ==
    IF digits = <<>> THEN 0
    ELSE IntOf(SubSeq(digits, 1, Len(digits) - 1), base) * base
         + HexVal(digits[Len(digits)])

\* chr(n) for the code points of the characters of the model
Chr(n) ==
    CASE n = 34 -> "\""
      [] n = 38 -> "&"
      [] n = 39 -> "'"
      [] n = 60 -> "<"
      [] n = 62 -> ">"
      [] OTHER -> "<chr>"

\* the length of the run of characters of s, from position i on, up to the
\* first position in ends
RunUpTo(s, i, ends) ==
    LET end == IF ends = {} THEN Len(s) + 1
               ELSE CHOOSE j \in ends : \A k \in ends : j <= k
    IN end - i

\* [0-9a-fA-F]+, [0-9]+ and [^\t\n\f <&#;]+ from position i on
HexRun(s, i) == RunUpTo(s, i, {j \in i..Len(s) : ~IsHex(s[j])})
DecRun(s, i) == RunUpTo(s, i, {j \in i..Len(s) : ~IsDigit(s[j])})
NameRun(s, i) == RunUpTo(s, i, {j \in i..Len(s) : s[j] \in NameStop})

\* the character reference that starts at s[1] = "&", as html._charref
\* matches it and html._replace_charref replaces it: the number of
\* characters matched (0: no match) and what replaces them
CharRef(s) ==
    LET semi(j) == IF j <= Len(s) /\ s[j] = ";" THEN 1 ELSE 0
    IN  IF Len(s) >= 2 /\ s[2] = "#"
        THEN IF Len(s) >= 3 /\ s[3] \in {"x", "X"}
             THEN LET n == HexRun(s, 4)
                  IN IF n = 0 THEN [len |-> 0, out |-> <<>>]
                     ELSE [len |-> 3 + n + semi(4 + n),
                           out |-> <<Chr(IntOf(SubSeq(s, 4, 3 + n), 16))>>]
             ELSE LET n == DecRun(s, 3)
                  IN IF n = 0 THEN [len |-> 0, out |-> <<>>]
                     ELSE [len |-> 2 + n + semi(3 + n),
                           out |-> <<Chr(IntOf(SubSeq(s, 3, 2 + n), 10))>>]
        ELSE LET n0 == NameRun(s, 2)
                 n == IF n0 > 32 THEN 32 ELSE n0
                 glen == n + semi(2 + n)
                 g == SubSeq(s, 2, 1 + glen)
                 prefixes == {x \in 2..(glen - 1) : SubSeq(g, 1, x) \in Html5Names}
                 best == CHOOSE x \in prefixes : \A y \in prefixes : y <= x
             IN IF n = 0 THEN [len |-> 0, out |-> <<>>]
                ELSE IF InHtml5(g)
                     THEN [len |-> 1 + glen, out |-> <<Html5Of(g)>>]
                ELSE IF prefixes # {}
                     THEN [len |-> 1 + glen,
                           out |-> <<Html5Char(SubSeq(g, 1, best))>>
                                   \o SubSeq(g, best + 1, glen)]
                ELSE [len |-> 1 + glen, out |-> <<"&">> \o g]

\* html.unescape
RECURSIVE HtmlUnescape(_)
HtmlUnescape(s) ==
    IF s = <<>> THEN <<>>
    ELSE IF s[1] # "&" THEN <<s[1]>> \o HtmlUnescape(Tail(s))
    ELSE LET ref == CharRef(s)
         IN IF ref.len = 0 THEN <<"&">> \o HtmlUnescape(Tail(s))
            ELSE ref.out \o HtmlUnescape(SubSeq(s, ref.len + 1, Len(s)))

\* unescaping first and stripping the tags afterwards
cooked_unescape_UnescapeFirst(message) == StripTags(HtmlUnescape(message))

cooked_unescape(message) == HtmlUnescape(StripTags(message))

\* the character U+0060
BACKTICK == "<backtick>"

\* str.replace(c, r) and re.sub of a one-character pattern: every occurrence
\* of the character c becomes the characters r
RECURSIVE ReplaceChar(_, _, _)
ReplaceChar(text, c, r) ==
    IF text = <<>> THEN <<>>
    ELSE (IF text[1] = c THEN r ELSE <<text[1]>>)
         \o ReplaceChar(Tail(text), c, r)

\* an escape that treats the slash as a sixth metacharacter
html_escape_Slash(text) ==
    ReplaceChar(
      ReplaceChar(
        ReplaceChar(
          ReplaceChar(
            ReplaceChar(
              ReplaceChar(text, "&", <<"&", "a", "m", "p", ";">>),
              "<", <<"&", "l", "t", ";">>),
            ">", <<"&", "g", "t", ";">>),
          "\"", <<"&", "q", "u", "o", "t", ";">>),
        "'", <<"&", "#", "x", "2", "7", ";">>),
      "/", <<"&", "#", "x", "2", "F", ";">>)

\* html.escape(text, quote=True): five replacements, "&" first
html_escape(text) ==
    ReplaceChar(
      ReplaceChar(
        ReplaceChar(
          ReplaceChar(
            ReplaceChar(text, "&", <<"&", "a", "m", "p", ";">>),
            "<", <<"&", "l", "t", ";">>),
          ">", <<"&", "g", "t", ";">>),
        "\"", <<"&", "q", "u", "o", "t", ";">>),
      "'", <<"&", "#", "x", "2", "7", ";">>)

\* xss.replace: the replacements are applied one after the other, each to the
\* whole text
RECURSIVE replace(_, _)
replace(text, rs) ==
    IF rs = <<>> THEN text
    ELSE replace(ReplaceChar(text, rs[1][1], rs[1][2]), Tail(rs))

\* the replacement list of md_escape, in its order
MdReplacements ==
    << <<"*", <<"\\", "*">> >>,
       <<"#", <<"\\", "#">> >>,
       <<"/", <<"\\", "/">> >>,
       <<"(", <<"\\", "(">> >>,
       <<")", <<"\\", ")">> >>,
       <<"[", <<"\\", "[">> >>,
       <<"]", <<"\\", "]">> >>,
       <<"<", <<"&", "l", "t", ";">> >>,
       <<">", <<"&", "g", "t", ";">> >>,
       <<"_", <<"\\", "_">> >>,
       <<BACKTICK, <<"\\", BACKTICK>> >> >>

\* a list in which "/" is replaced after "<" was
md_escape_SlashLast(text) ==
    replace(text, SubSeq(MdReplacements, 1, 2)
                  \o SubSeq(MdReplacements, 4, 11)
                  \o << <<"/", <<"\\", "/">> >>, <<";", <<"\\", ";">> >> >>)

md_escape(text) == replace(text, MdReplacements)

-----------------------------------------------------------------------------
(* The keyword arguments of send_msg *)

NoSender == [present |-> FALSE, val |-> <<>>]
Sender(name) == [present |-> TRUE, val |-> name]

NoReply == [present |-> FALSE, to |-> <<>>, text |-> <<>>]
Reply(reply_to, reply_text) ==
    [present |-> TRUE, to |-> reply_to, text |-> reply_text]

\* raw: the Message that is forwarded, as far as send_msg reads it
NoRaw == [present |-> FALSE, channel |-> PyNone, mtype |-> PyNone,
          media_url |-> NoUrl]
Raw(m) == [present |-> TRUE, channel |-> m.channel, mtype |-> m.mtype,
           media_url |-> m.media_url]

\* sender=None, escape=True, first=False, no reply_text, raw=None
DefaultArgs ==
    [sender |-> NoSender, escape |-> TRUE, first |-> FALSE, reply |-> NoReply,
     raw |-> NoRaw]

-----------------------------------------------------------------------------
(* BBCode renderer: DiscourseBabbleHandle.formatRichText *)

\* the sixteen colours of mIRC, without the grey of index 16
IRC_COLOR_RGB_Sixteen ==
    <<"#ffffff", "#000000", "#00007f", "#009300", "#ff0000", "#7f0000",
      "#9c009c", "#fc7f00", "#ffff00", "#00fc00", "#009300", "#00ffff",
      "#0000fc", "#ff00ff", "#7f7f7f", "#d2d2d2">>

IRC_COLOR_RGB ==
    <<"#ffffff", "#000000", "#00007f", "#009300", "#ff0000", "#7f0000",
      "#9c009c", "#fc7f00", "#ffff00", "#00fc00", "#009300", "#00ffff",
      "#0000fc", "#ff00ff", "#7f7f7f", "#d2d2d2", "#888">>

bold(ts, text) ==
    IF ~is_bold(ts) THEN text ELSE <<"[b]">> \o text \o <<"[/b]">>

italic(ts, text) ==
    IF ~is_italic(ts) THEN text ELSE <<"[i]">> \o text \o <<"[/i]">>

underline(ts, text) ==
    IF ~is_underline(ts) THEN text ELSE <<"[u]">> \o text \o <<"[/u]">>

fgcolor(text, c) ==
    <<"[color=", IRC_COLOR_RGB[c + 1], "]">> \o text \o <<"[/color]">>

bgcolor(text, c) ==
    <<"[bgcolor=", IRC_COLOR_RGB[c + 1], "]">> \o text \o <<"[/bgcolor]">>

color(ts, text) ==
    IF ~has_color(ts) THEN text
    ELSE IF Truthy(ts.color.bg)
         THEN bgcolor(fgcolor(text, ts.color.fg), ts.color.bg)
         ELSE fgcolor(text, ts.color.fg)

\* a run whose bold wrapper is put around all the others
BabbleRun_BoldOutside(ts, text) ==
    IF text = <<>> THEN <<>>
    ELSE IF is_normal(ts) THEN text
    ELSE bold(ts, underline(ts, italic(ts, color(ts, text))))

BabbleRun(ts, text) ==
    IF text = <<>> THEN <<>>
    ELSE IF is_normal(ts) THEN text
    ELSE underline(ts, italic(ts, bold(ts, color(ts, text))))

RECURSIVE Babble_formatRichText(_)
Babble_formatRichText(rich_text) ==
    IF rich_text = <<>> THEN <<>>
    ELSE BabbleRun(rich_text[1][1], rich_text[1][2])
         \o Babble_formatRichText(Tail(rich_text))

-----------------------------------------------------------------------------
(* Telegram HTML renderer: Telegram.formatRichText *)

\* a renderer that embeds the text of a run as it is
TelegramRun_Unescaped(ts, text, escape) ==
    IF is_bold(ts) THEN <<"<b>">> \o text \o <<"</b>">>
    ELSE IF is_italic(ts) THEN <<"<i>">> \o text \o <<"</i>">>
    ELSE text

\* a run in which italic wins over bold
TelegramRun_ItalicFirst(ts, text, escape) ==
    LET t == IF escape THEN html_escape(text) ELSE text
    IN  IF is_italic(ts) THEN <<"<i>">> \o t \o <<"</i>">>
        ELSE IF is_bold(ts) THEN <<"<b>">> \o t \o <<"</b>">>
        ELSE t

TelegramRun(ts, text, escape) ==
    LET t == IF escape THEN html_escape(text) ELSE text
    IN  IF is_bold(ts) THEN <<"<b>">> \o t \o <<"</b>">>
        ELSE IF is_italic(ts) THEN <<"<i>">> \o t \o <<"</i>">>
        ELSE t

RECURSIVE Telegram_formatRichText(_, _)
Telegram_formatRichText(rich_text, escape) ==
    IF rich_text = <<>> THEN <<>>
    ELSE TelegramRun(rich_text[1][1], rich_text[1][2], escape)
         \o Telegram_formatRichText(Tail(rich_text), escape)

-----------------------------------------------------------------------------
(* The nick stores of the Telegram adapter: MemNickStore, RedisNickStore *)

\* Python values: a str, a bytes, None; TgDefault(n) is the str "tg-<n>"
Str(s) == [t |-> "str", v |-> s, n |-> 0]
Bytes(s) == [t |-> "bytes", v |-> s, n |-> 0]
None == [t |-> "None", v |-> <<>>, n |-> 0]
TgDefault(user_id) == [t |-> "str", v |-> <<"t", "g", "-">>, n |-> user_id]

\* truth value of a str, a bytes or None
Truth(x) == x.t # "None" /\ (x.v # <<>> \/ x.n # 0)

\* x or y
Or(x, y) == IF Truth(x) THEN x ELSE y

\* a dict, or a Redis hash, as a set of <<key, value>> with one value per key
DictGet(d, k) ==
    IF \E e \in d : e[1] = k THEN (CHOOSE e \in d : e[1] = k)[2] ELSE None

DictSet(d, k, x) == {e \in d : e[1] # k} \cup {<<k, x>>}

\* redis-py encodes the fields and values it is handed: a str to its UTF-8
\* bytes, an int to the bytes of its decimal digits; bytes stay
Encode(x) == IF x.t = "str" THEN Bytes(x.v) ELSE x
EncodeId(user_id) == Bytes(FormatInt(user_id))

\* n.decode('utf-8') if isinstance(n, bytes) else n
Decode(x) == IF x.t = "bytes" THEN Str(x.v) ELSE x

\* MemNickStore.__init__
MemNickStore == [usernicks |-> {}, nickusers |-> {}]

\* the hashes NICKNAME_KEY and USERNAME_KEY of an empty Redis
RedisNickStore == [nicks |-> {}, usernames |-> {}]

\* every method gives the store it leaves and the value it returns
Mem_set_nickname(st, user_id, nickname) ==
    [store |-> [st EXCEPT !.usernicks = DictSet(@, user_id, nickname)],
     ret |-> None]

Mem_set_username(st, nickname, username) ==
    [store |-> [st EXCEPT !.nickusers = DictSet(@, nickname, username)],
     ret |-> None]

Mem_get_username(st, nickname) ==
    [store |-> st, ret |-> DictGet(st.nickusers, nickname)]

\* a get_nickname in which the username of the call wins over a stored
\* nickname
Mem_get_nickname_UsernameFirst(st, user_id, username, display_name) ==
    LET nick0 == DictGet(st.usernicks, user_id)
        nick == IF Truth(username) THEN username ELSE nick0
        st1 == IF Truth(username)
               THEN Mem_set_username(
                        Mem_set_nickname(st, user_id, username).store,
                        nick, username).store
               ELSE st
    IN [store |-> st1,
        ret |-> Or(nick, Or(display_name, TgDefault(user_id)))]

Mem_get_nickname(st, user_id, username, display_name) ==
    LET nick0 == DictGet(st.usernicks, user_id)
        fresh == ~Truth(nick0) /\ Truth(username)
        st1 == IF fresh THEN Mem_set_nickname(st, user_id, username).store
               ELSE st
        nick == IF fresh THEN username ELSE nick0
        st2 == IF Truth(nick) /\ Truth(username)
               THEN Mem_set_username(st1, nick, username).store
               ELSE st1
    IN [store |-> st2,
        ret |-> Or(nick, Or(display_name, TgDefault(user_id)))]

Redis_set_nickname(st, user_id, nickname) ==
    [store |-> [st EXCEPT !.nicks =
                    DictSet(@, EncodeId(user_id), Encode(nickname))],
     ret |-> None]

Redis_set_username(st, nickname, username) ==
    [store |-> [st EXCEPT !.usernames =
                    DictSet(@, Encode(nickname), Encode(username))],
     ret |-> None]

\* a get_username that returns what hget gives
Redis_get_username_Raw(st, nickname) ==
    [store |-> st, ret |-> DictGet(st.usernames, Encode(nickname))]

Redis_get_username(st, nickname) ==
    [store |-> st, ret |-> Decode(DictGet(st.usernames, Encode(nickname)))]

Redis_get_nickname(st, user_id, username, display_name) ==
    LET nick0 == DictGet(st.nicks, EncodeId(user_id))
        fresh == ~Truth(nick0) /\ Truth(username)
        st1 == IF fresh THEN Redis_set_nickname(st, user_id, username).store
               ELSE st
        nick == IF fresh THEN username ELSE nick0
        st2 == IF Truth(nick) /\ Truth(username)
               THEN Redis_set_username(st1, nick, username).store
               ELSE st1
    IN [store |-> st2,
        ret |-> Or(Decode(nick), Or(display_name, TgDefault(user_id)))]

-----------------------------------------------------------------------------
(* Stickers: RedisStickerURLStore and Telegram.upload_sticker *)

\* RedisStickerURLStore.get_sticker: the hash STICKER_KEY is a set of
\* <<field, value>>
Sticker_get(store, sticker_id) ==
    LET u == DictGet(store, Encode(sticker_id))
    IN IF Truth(u) THEN Decode(u) ELSE None

\* RedisStickerURLStore.set_sticker
Sticker_set(store, sticker_id, url) ==
    DictSet(store, Encode(sticker_id), Encode(url))

\* md5(sticker): the digest of the data as a str, one digest per data
Md5(data) == Str(<<"m", "d", "5", ":">> \o data.v)

\* Telegram.upload_sticker with what its calls come to: sticker is what
\* download_file returns (the data, or None), url what upload_image returns
\* (a str, or None).  It gives the store it leaves, the pair it returns and
\* whether upload_image was called
Telegram_upload_sticker(store, photo_store, file_id, sticker, url) ==
    LET byId == Sticker_get(store, file_id)
        m == Md5(sticker)
        byMd5 == Sticker_get(store, m)
        miss(err) == [store |-> store, url |-> None, err |-> err,
                      uploaded |-> FALSE]
    IN  IF byId # None
        THEN [store |-> store, url |-> byId, err |-> "None",
              uploaded |-> FALSE]
        ELSE IF ~photo_store THEN miss("Unable to upload photo")
        ELSE IF sticker = None THEN miss("teleboto failed to download file")
        ELSE IF byMd5 # None
        THEN [store |-> store, url |-> byMd5, err |-> "None",
              uploaded |-> FALSE]
        ELSE IF url = None
        THEN [store |-> store, url |-> None, err |-> "Failed to upload Image",
              uploaded |-> TRUE]
        ELSE [store |-> Sticker_set(Sticker_set(store, file_id, url), m, url),
              url |-> url, err |-> "None", uploaded |-> TRUE]

\* an empty sticker store, a photo store configured, no call made yet
NoStickers ==
    [store |-> {}, photo_store |-> TRUE, file_id |-> None, url |-> None,
     err |-> "None", uploaded |-> FALSE, done |-> {}]

-----------------------------------------------------------------------------
(* Outbound: Telegram.send_msg *)

Letters ==
    {"a", "b", "c", "d", "e", "f", "g", "h", "i", "j", "k", "l", "m", "n",
     "o", "p", "q", "r", "s", "t", "u", "v", "w", "x", "y", "z"}

\* the regex classes \w and \s
IsWord(c) == c \in Letters \/ IsDigit(c) \/ c = "_"
IsSpace(c) == c \in {" ", "\n", "\t"}

\* a nick store in which the nickname bob stands for the user bob_tg
NickUsers ==
    Redis_set_username(RedisNickStore, Str(<<"b", "o", "b">>),
                       Str(<<"b", "o", "b", "_", "t", "g">>)).store

\* self.nick_store.get_username(nick): the adapter is built with a
\* RedisNickStore, whose hashes are the variable redis
get_username(nick) == Redis_get_username(redis, Str(nick)).ret

\* the length of the run of word characters of s that starts at position i
WordRun(s, i) == RunUpTo(s, i, {j \in i..Len(s) : ~IsWord(s[j])})

\* (?P<pre>.*\s|^)@(?P<nick>\w+)(?P<post>.*) matched at the start of a
\* one-line content: the position of the "@", 0 when there is no match
MentionAt(s) ==
    LET at == {i \in 1..(Len(s) - 1) :
                  /\ s[i] = "@"
                  /\ IsWord(s[i + 1])
                  /\ (i = 1 \/ IsSpace(s[i - 1]))}
        inner == at \ {1}
    IN  IF inner # {} THEN CHOOSE i \in inner : \A k \in inner : k <= i
        ELSE IF 1 \in at THEN 1
        ELSE 0

\* the first pattern of nickuser_regexes, with its substitution
NickSubMention(content) ==
    LET i == MentionAt(content)
        n == WordRun(content, i + 1)
        username == get_username(SubSeq(content, i + 1, i + n))
    IN  IF i = 0 \/ username = None THEN content
        ELSE SubSeq(content, 1, i) \o username.v
             \o SubSeq(content, i + n + 1, Len(content))

\* the second pattern, (?P<pre>^)(?P<nick>\w+)(?P<post>:.*)
NickSubAddress(content) ==
    LET n == WordRun(content, 1)
        username == get_username(SubSeq(content, 1, n))
    IN  IF n = 0 \/ n + 1 > Len(content) \/ content[n + 1] # ":"
           \/ username = None
        THEN content
        ELSE <<"@">> \o username.v \o SubSeq(content, n + 1, Len(content))

\* Telegram.msg_tmpl applied to sender and content
Telegram_msg_tmpl(sender, content) ==
    IF ~sender.present THEN content
    ELSE <<"<b>">> \o sender.val \o <<"</b>", "\n">> \o content

\* Telegram.send_msg: the text of the sendMessage request (parse_mode HTML)
Telegram_send_msg(content, sender, escape, rich_text) ==
    LET named == NickSubAddress(NickSubMention(content))
        body == IF rich_text.present /\ rich_text.val # <<>>
                THEN Telegram_formatRichText(rich_text.val, escape)
                ELSE IF escape THEN html_escape(named) ELSE named
    IN Telegram_msg_tmpl(sender, body)

-----------------------------------------------------------------------------
(* Outbound: DiscourseBabbleHandle.send_msg *)

\* ord(c) for the characters senders are written with
Ord(c) ==
    CASE c = "&" -> 38
      [] c = "<" -> 60
      [] c = ">" -> 62
      [] c = "[" -> 91
      [] c = "]" -> 93
      [] c = "a" -> 97
      [] c = "b" -> 98
      [] c = "i" -> 105
      [] c = "o" -> 111

RECURSIVE SumOrd(_)
SumOrd(name) == IF name = <<>> THEN 0 ELSE Ord(name[1]) + SumOrd(Tail(name))

color_avail == <<2, 3, 4, 5, 6, 7, 10, 12, 13>>

\* the colour send_msg picks for a sender
SenderColor(sender) ==
    Color(color_avail[(SumOrd(sender) % Len(color_avail)) + 1], NoBg)

\* str.strip()
RECURSIVE LStrip(_)
LStrip(text) ==
    IF text # <<>> /\ IsSpace(text[1]) THEN LStrip(Tail(text)) ELSE text

RECURSIVE RStrip(_)
RStrip(text) ==
    IF text # <<>> /\ IsSpace(text[Len(text)])
    THEN RStrip(SubSeq(text, 1, Len(text) - 1))
    ELSE text

Strip(text) == RStrip(LStrip(text))

\* the quote of the message replied to
Babble_reply_quote(reply) ==
    IF ~reply.present THEN <<>>
    ELSE LET reply_text == IF Len(reply.text) > 8
                           THEN SubSeq(reply.text, 1, 8) \o <<".", ".", ".">>
                           ELSE reply.text
         IN <<"[b]">> \o reply.to \o <<"[/b]", "<br/>">> \o Strip(reply_text)

\* raw.channel.capitalize() after xss.replace; "None" when raw is None
Babble_channel(raw) ==
    IF ~raw.present THEN "None"
    ELSE CASE raw.channel = "IRC" -> "IRC"
           [] raw.channel = "Telegram" -> "Telegram"
           [] raw.channel = "XMPP" -> "Xmpp"
           [] OTHER -> "Discoursebabble"

\* DiscourseBabbleHandle.rich_message; " user\n" stands for the literal that
\* follows the channel, "[:tmpl" and "] :tmpl" for the "[" and "] " of tmpl
Babble_rich_message(content, sender, reply_quote, channel) ==
    IF sender.present /\ sender.val # <<>>
    THEN << Run(TextStyle(SenderColor(sender.val), TRUE, FALSE, FALSE),
                sender.val),
            Run(TextStyle(Color(16, NoBg), FALSE, FALSE, FALSE),
                <<" ", channel, " user\n">>),
            Run(TextStyle(Color(16, NoBg), FALSE, FALSE, FALSE),
                reply_quote \o <<"\n">>),
            Run(Normal, md_escape(content)) >>
    ELSE IF ~sender.present THEN << Run(Normal, content) >>
    ELSE << Run(Normal,
                <<"[:tmpl">> \o sender.val \o <<"] :tmpl">> \o content) >>

\* DiscourseBabbleHandle.send_msg: the text handed to do_send_request;
\* "):tmpl" stands for the ")" that closes the image
Babble_send_msg(content, sender, raw, reply) ==
    LET msg == Babble_rich_message(content, sender, Babble_reply_quote(reply),
                                   Babble_channel(raw))
        media == IF raw.present /\ raw.mtype \in {"Photo", "Sticker"}
                 THEN <<"\n![](">>
                      \o (IF raw.media_url.present THEN raw.media_url.val
                          ELSE <<"None">>)
                      \o <<"):tmpl">>
                 ELSE <<>>
    IN Babble_formatRichText(msg) \o media

-----------------------------------------------------------------------------
(* Outbound: IRCHandle.send_msg *)

\* the quote of the message replied to, on the first line only; "[Re " and
\* "]:tmpl" stand for the corner brackets of the literal, ": " for its colon
IRC_reply_quote(first, reply) ==
    IF ~(first /\ reply.present) THEN <<>>
    ELSE LET reply_text == IF Len(reply.text) > 8
                           THEN SubSeq(reply.text, 1, 8) \o <<".", ".", ".">>
                           ELSE reply.text
         IN <<"[Re ">> \o reply.to \o <<": ">> \o reply_text \o <<"]:tmpl">>

\* IRCHandle.rich_message
IRC_rich_message(content, sender, reply_quote) ==
    IF sender.present /\ sender.val # <<>>
    THEN << Run(TextStyle(SenderColor(sender.val), FALSE, FALSE, FALSE),
                <<"[:tmpl">> \o sender.val \o <<"] :tmpl">>),
            Run(TextStyle(Color(15, NoBg), FALSE, FALSE, FALSE), reply_quote),
            Run(Normal, content) >>
    ELSE IF ~sender.present THEN << Run(Normal, content) >>
    ELSE << Run(Normal,
                <<"[:tmpl">> \o sender.val \o <<"] :tmpl">> \o content) >>

\* IRCHandle.send_msg: the text handed to irc_conn.privmsg; rich_text is one
\* of the keyword arguments the method does not read
IRC_send_msg(content, sender, first, reply, rich_text) ==
    formatRichText(
        IRC_rich_message(content, sender, IRC_reply_quote(first, reply)))

-----------------------------------------------------------------------------
(* Outbound: XMPPHandle.send_msg *)

\* the reply quote of XMPPHandle.send_msg: the assignment of reply_quote is
\* inside the if that cuts a reply_text of more than 5 characters
XMPP_reply_quote(first, reply) ==
    IF first /\ reply.present /\ Len(reply.text) > 5
    THEN <<"[Re ">> \o reply.to \o <<": ">> \o SubSeq(reply.text, 1, 5)
         \o <<".", ".", ".">> \o <<"]:tmpl">>
    ELSE <<>>

\* XMPPHandle.msg_tmpl filled in by send_msg
XMPP_msg_tmpl(sender, reply_quote, content) ==
    IF ~sender.present THEN content
    ELSE <<"[:tmpl">> \o sender.val \o <<"] :tmpl">> \o reply_quote
         \o content

\* XMPPHandle.send_msg: the mbody handed to send_message
XMPP_send_msg(content, sender, first, reply) ==
    XMPP_msg_tmpl(sender, XMPP_reply_quote(first, reply), content)

-----------------------------------------------------------------------------
(* Configuration of the adapters *)

IrcBlacklist == {"spammer"}
\* config["telegram"]["me"]: the ids message_stream is told to leave out
TeleMe == {2}
XmppNick == "fishbot"
BabbleUsername == "fishbot"
BabbleBaseUrl == "https://forum"

\* BaseBotInstance.is_cmd: a command starts with "/"
is_cmd(content) == content # <<>> /\ content[1] = "/"

\* a reader thread started with the bus of the other direction
ReaderBus_Crossed(p) == fish2im

\* the direction each thread is started with (main of each adapter)
ReaderBus(p) == im2fish
WriterBus(c) == fish2im

-----------------------------------------------------------------------------
(* Messages built by the adapters' inbound handlers; <<>> when the handler   *)
(* returns without publishing                                                *)

\* an on_privmsg that keeps the text as received for content
privmsg_Message_Raw(irc_nick, target, arg, now) ==
    LET parsed == parseIRC(arg)
        rich_text == IF Len(parsed) = 1 /\ is_normal(parsed[1][1])
                     THEN NoRichText ELSE SomeRichText(parsed)
        mtype == IF is_cmd(arg) THEN "Command" ELSE "Text"
    IN Message("IRC", irc_nick, target, arg, mtype, now, now,
               rich_text, NoUrl, NoOpt)

\* IRCHandle.on_privmsg / on_pubmsg
privmsg_Message(irc_nick, target, arg, now) ==
    LET parsed == parseIRC(arg)
        content == toPlain(parsed)
        rich_text == IF Len(parsed) = 1 /\ is_normal(parsed[1][1])
                     THEN NoRichText ELSE SomeRichText(parsed)
        mtype == IF is_cmd(content) THEN "Command" ELSE "Text"
    IN Message("IRC", irc_nick, target, content, mtype, now, now,
               rich_text, NoUrl, NoOpt)

\* a handler that does not look at the blacklist
on_privmsg_msgs_NoBlacklist(irc_nick, target, arg, now) ==
    <<privmsg_Message(irc_nick, target, arg, now)>>

on_privmsg_msgs(irc_nick, target, arg, now) ==
    IF irc_nick \in IrcBlacklist THEN <<>>
    ELSE <<privmsg_Message(irc_nick, target, arg, now)>>

\* IRCHandle.on_action; the fish is random.choice of a tuple of emoji, which
\* enters the content and nothing else: one emoji stands for the tuple
Fishes == {"fish1"}

on_action_msgs(irc_nick, target, arg, fish, now) ==
    IF irc_nick \in IrcBlacklist THEN <<>>
    ELSE << Message("IRC", irc_nick, target,
                    <<fish, " ", irc_nick, " ">> \o arg,
                    "Event", now, now, NoRichText, NoUrl, NoOpt) >>

\* XMPPHandle.on_muc_message
on_muc_message_msgs(mucnick, has_id, from_bare, body, now) ==
    IF mucnick # XmppNick /\ has_id
    THEN << Message("XMPP", mucnick, from_bare, body,
                    IF is_cmd(body) THEN "Command" ELSE "Text",
                    now, now, NoRichText, NoUrl, NoOpt) >>
    ELSE <<>>

\* re.search(r'<img[\s\w"=]+?src="([^"]+)".*?>', message): the src of the
\* first img tag, <<>> when there is none
ImgAt(s, i) ==
    /\ i + 4 <= Len(s)
    /\ s[i] = "<" /\ s[i + 1] = "img " /\ s[i + 2] = "src="
    /\ FirstGt(s, i + 4) # 0

ImgSrc(s) ==
    IF \E i \in 1..Len(s) : ImgAt(s, i)
    THEN <<s[(CHOOSE i \in 1..Len(s) :
                ImgAt(s, i) /\ \A k \in 1..(i - 1) : ~ImgAt(s, k)) + 3]>>
    ELSE <<>>

IsHttp(u) == u \in {"http://h/i.png"}
IsUpload(u) == u \in {"/uploads/i.png"}

\* DiscourseBabbleHandle.on_sendmessage
on_sendmessage_msgs(topic_id, current_user, message, now) ==
    IF current_user = BabbleUsername THEN <<>>
    ELSE LET m == ImgSrc(message)
             mtype == IF m # <<>> THEN "Photo" ELSE "Text"
             media_url ==
                 IF m # <<>> /\ ~IsHttp(m[1]) /\ IsUpload(m[1])
                 THEN <<BabbleBaseUrl>> \o m
                 ELSE m
         IN << Message("DiscourseBabble", current_user, topic_id,
                       cooked_unescape(message), mtype, now, now,
                       NoRichText, Url(media_url), NoOpt) >>

\* the username of a Telegram user id
TgUserName(user_id) == IF user_id \in TeleMe THEN "fishbot" ELSE "tguser"

\* the Messages Telegram.message_stream yields for an update from user_id:
\* none for an id of id_blacklist
TelegramYields(user_id, now) ==
    IF user_id \in TeleMe THEN {}
    ELSE { Message("Telegram", TgUserName(user_id), "-100", <<"a">>, "Text",
                   now, now, NoRichText, NoUrl,
                   Opt(now, TgUserName(user_id))) }

-----------------------------------------------------------------------------
(* Inputs of the model *)

IrcNicks == {"alice", "spammer"}
IrcArgs == { <<"a">>, <<BOLD, "a", RESET, "5">> }
XmppNicks == {"bob", XmppNick}
XmppBodies == { <<"/", "a">> }
BabbleUsers == {"carol", BabbleUsername}
TgUserIds == {1, 2}
BabbleCooked ==
    { <<"<", "p", ">", "a", "&", "a", "m", "p", ";",
        "<", "img ", "src=", "/uploads/i.png", ">", "<", "/p", ">">> }

-----------------------------------------------------------------------------
(* Steps of the reader units *)

\* bus.publish(msg) called by unit p on direction d
BusPublish(p, d, msg) ==
    LET r == publish(d, msg)
    IN /\ queue' = r.q
       /\ perr' = [perr EXCEPT ![p] = r.err]
       /\ attempts' = [attempts EXCEPT ![p] = @ + r.tries]
       /\ arrived' = IF r.err = "ok"
                     THEN [arrived EXCEPT ![d] = Append(@, msg)]
                     ELSE arrived
       /\ sent' = IF r.err = "ok"
                  THEN [sent EXCEPT ![p] = Append(@, msg)]
                  ELSE sent

\* the send_to_bus closures the reader threads install on their handles
IRC_send_to_bus(msg) ==
    BusPublish("IRC2Fishroom", ReaderBus("IRC2Fishroom"), msg)

\* a closure that catches the error of publish and reports success
XMPP_send_to_bus_Swallow(msg) ==
    LET r == publish(ReaderBus("XMPP2Fishroom"), msg)
    IN /\ queue' = r.q
       /\ perr' = [perr EXCEPT !["XMPP2Fishroom"] = "ok"]
       /\ attempts' = [attempts EXCEPT !["XMPP2Fishroom"] = @ + r.tries]
       /\ arrived' = IF r.err = "ok"
                     THEN [arrived EXCEPT ![im2fish] = Append(@, msg)]
                     ELSE arrived
       /\ sent' = IF r.err = "ok"
                  THEN [sent EXCEPT !["XMPP2Fishroom"] = Append(@, msg)]
                  ELSE sent

XMPP_send_to_bus(msg) ==
    BusPublish("XMPP2Fishroom", ReaderBus("XMPP2Fishroom"), msg)

Babble_send_to_bus(msg) ==
    BusPublish("Babble2Fishroom", ReaderBus("Babble2Fishroom"), msg)

\* an inbound event that publishes reads the clock, which has moved on when
\* the next one does
Tick ==
    /\ clock < MaxEvents
    /\ clock' = clock + 1

\* a handler that returns before it builds a Message: time passes, nothing
\* else changes
Ignored == Tick /\ UNCHANGED <<queue, perr, attempts, arrived, sent>>

on_privmsg(irc_nick, target, arg) ==
    /\ clock < MaxEvents
    /\ LET msgs == on_privmsg_msgs(irc_nick, target, arg, clock)
       IN IF msgs = <<>> THEN Ignored
          ELSE Tick /\ IRC_send_to_bus(msgs[1])
    /\ UNCHANGED <<brokerUp, seen, running, hold, taken>>
    /\ UNCHANGED <<fmtVars, restVars>>

on_action(irc_nick, target, arg, fish) ==
    /\ clock < MaxEvents
    /\ LET msgs == on_action_msgs(irc_nick, target, arg, fish, clock)
       IN IF msgs = <<>> THEN Ignored
          ELSE Tick /\ IRC_send_to_bus(msgs[1])
    /\ UNCHANGED <<brokerUp, seen, running, hold, taken>>
    /\ UNCHANGED <<fmtVars, restVars>>

on_muc_message(mucnick, has_id, from_bare, body) ==
    /\ clock < MaxEvents
    /\ LET msgs == on_muc_message_msgs(mucnick, has_id, from_bare, body, clock)
       IN IF msgs = <<>> THEN Ignored
          ELSE Tick /\ XMPP_send_to_bus(msgs[1])
    /\ UNCHANGED <<brokerUp, seen, running, hold, taken>>
    /\ UNCHANGED <<fmtVars, restVars>>

on_sendmessage(topic_id, current_user, message) ==
    /\ clock < MaxEvents
    /\ LET msgs == on_sendmessage_msgs(topic_id, current_user, message, clock)
       IN IF msgs = <<>> THEN Ignored
          ELSE Tick /\ Babble_send_to_bus(msgs[1])
    /\ UNCHANGED <<brokerUp, seen, running, hold, taken>>
    /\ UNCHANGED <<fmtVars, restVars>>

\* a reader that publishes only once the consumer has taken what is queued
Telegram2FishroomThread_Rendezvous(msg) ==
    /\ queue[im2fish] = <<>>
    /\ running["Telegram2Fishroom"]
    /\ Tick
    /\ BusPublish("Telegram2Fishroom", ReaderBus("Telegram2Fishroom"), msg)
    /\ running' = [running EXCEPT !["Telegram2Fishroom"] = brokerUp]
    /\ UNCHANGED <<brokerUp, seen, hold, taken>>
    /\ UNCHANGED <<fmtVars, restVars>>

\* for msg in tg.message_stream(...): bus.publish(msg); an exception of
\* publish is not caught and ends the thread
Telegram2FishroomThread(msg) ==
    /\ running["Telegram2Fishroom"]
    /\ Tick
    /\ BusPublish("Telegram2Fishroom", ReaderBus("Telegram2Fishroom"), msg)
    /\ running' = [running EXCEPT !["Telegram2Fishroom"] = brokerUp]
    /\ UNCHANGED <<brokerUp, seen, hold, taken>>
    /\ UNCHANGED <<fmtVars, restVars>>

\* message_stream goes on to the next update without a yield
TelegramSkips(user_id) ==
    /\ running["Telegram2Fishroom"]
    /\ TelegramYields(user_id, clock) = {}
    /\ Ignored
    /\ UNCHANGED <<brokerUp, seen, running, hold, taken>>
    /\ UNCHANGED <<fmtVars, restVars>>

-----------------------------------------------------------------------------
(* Steps of the consumer units *)

\* one turn of "for msg in bus.message_stream(): forward(msg)" of unit c
ConsumerTurn(c, d) ==
    /\ running[c]
    /\ brokerUp
    /\ queue[d] # <<>>
    /\ LET r == message_stream(d)
       IN /\ queue' = r.q
          /\ seen' = [seen EXCEPT ![c] = @ \o r.yields]
          /\ taken' = [taken EXCEPT ![c] = Append(@, Head(queue[d]))]

Fishroom2IRCThread ==
    /\ ConsumerTurn("Fishroom2IRC", WriterBus("Fishroom2IRC"))
    /\ UNCHANGED <<brokerUp, clock, arrived, sent, running, perr, attempts,
                   hold>>
    /\ UNCHANGED <<fmtVars, restVars>>

Fishroom2TelegramThread ==
    /\ ConsumerTurn("Fishroom2Telegram", WriterBus("Fishroom2Telegram"))
    /\ UNCHANGED <<brokerUp, clock, arrived, sent, running, perr, attempts,
                   hold>>
    /\ UNCHANGED <<fmtVars, restVars>>

Fishroom2XMPPThread ==
    /\ ConsumerTurn("Fishroom2XMPP", WriterBus("Fishroom2XMPP"))
    /\ UNCHANGED <<brokerUp, clock, arrived, sent, running, perr, attempts,
                   hold>>
    /\ UNCHANGED <<fmtVars, restVars>>

Fishroom2BabbleThread ==
    /\ ConsumerTurn("Fishroom2Babble", WriterBus("Fishroom2Babble"))
    /\ UNCHANGED <<brokerUp, clock, arrived, sent, running, perr, attempts,
                   hold>>
    /\ UNCHANGED <<fmtVars, restVars>>

\* message_stream() while the broker cannot be reached: every consumer is
\* blocked in the pop, the error it raises is caught by no thread's loop,
\* and the loops end
ConsumersLoseBroker ==
    /\ ~brokerUp
    /\ \E c \in Consumers : running[c]
    /\ running' = [u \in Units |-> IF u \in Consumers THEN FALSE
                                   ELSE running[u]]
    /\ UNCHANGED <<queue, brokerUp, clock, arrived, sent, seen, perr,
                   attempts, hold, taken>>
    /\ UNCHANGED <<fmtVars, restVars>>

\* the relay core takes a Message from im2fish ...
RelayTake ==
    /\ hold = <<>>
    /\ ConsumerTurn(Core, im2fish)
    /\ hold' = IF Decodable(Head(queue[im2fish]))
               THEN <<loads(Head(queue[im2fish]))>> ELSE <<>>
    /\ UNCHANGED <<brokerUp, clock, arrived, sent, running, perr, attempts>>
    /\ UNCHANGED <<fmtVars, restVars>>

\* ... and publishes it on fish2im
RelayForward ==
    /\ hold # <<>>
    /\ BusPublish(Core, fish2im, hold[1])
    /\ hold' = <<>>
    /\ UNCHANGED <<brokerUp, clock, seen, running, taken>>
    /\ UNCHANGED <<fmtVars, restVars>>

-----------------------------------------------------------------------------
(* The broker's environment *)

BrokerFails ==
    /\ brokerUp
    /\ brokerUp' = FALSE
    /\ UNCHANGED <<queue, clock, arrived, sent, seen, running, perr, attempts,
                   hold, taken>>
    /\ UNCHANGED <<fmtVars, restVars>>

BrokerRecovers ==
    /\ ~brokerUp
    /\ brokerUp' = TRUE
    /\ UNCHANGED <<queue, clock, arrived, sent, seen, running, perr, attempts,
                   hold, taken>>
    /\ UNCHANGED <<fmtVars, restVars>>

\* an item that is no Message gets onto a queue
InjectCorrupt(d, item) ==
    /\ brokerUp
    /\ clock < MaxEvents
    /\ clock' = clock + 1
    /\ queue' = [queue EXCEPT ![d] = Append(@, item)]
    /\ UNCHANGED <<brokerUp, arrived, sent, seen, running, perr,
                   attempts, hold, taken>>
    /\ UNCHANGED <<fmtVars, restVars>>

-----------------------------------------------------------------------------
(* The bus specification *)

FmtOff ==
    /\ fpc = "off"
    /\ fr = <<>>
    /\ fs = <<>>
    /\ fwire = <<>>
    /\ fback = <<>>
    /\ fopt = DefaultArgs

BusInit ==
    /\ queue = [d \in Directions |-> <<>>]
    /\ brokerUp = TRUE
    /\ clock = 0
    /\ arrived = [d \in Directions |-> <<>>]
    /\ sent = [p \in Publishers |-> <<>>]
    /\ seen = [c \in Consumers |-> <<>>]
    /\ running = [u \in Units |-> TRUE]
    /\ perr = [p \in Publishers |-> "none"]
    /\ attempts = [p \in Publishers |-> 0]
    /\ hold = <<>>
    /\ taken = [c \in Consumers |-> <<>>]

\* offset is None; the server holds nothing; no response; nothing sent
NoOffset == -1
NoServer == [next |-> 1, held |-> <<>>]
NoResponse == [outcome |-> "none", result |-> <<>>]
NoText == [by |-> "none", content |-> <<>>, text |-> <<>>]

\* the Telegram reader before message_stream is called
TgOff ==
    /\ tpc = "off"
    /\ offset = NoOffset
    /\ tries = 0
    /\ texc = "none"
    /\ server = NoServer
    /\ yielded = <<>>
    /\ resp = NoResponse
    /\ twire = NoText

\* the nick stores as constructed
NickOff ==
    /\ mem = MemNickStore
    /\ redis = RedisNickStore
    /\ rets = [call |-> "none", mem |-> None, redis |-> None]
    /\ stk = NoStickers

\* no writer has sent anything
SendOff ==
    /\ pausing = [w \in Writers |-> FALSE]
    /\ lastOut = [w \in Writers |-> "none"]

RestOff == TgOff /\ NickOff /\ SendOff

Init == BusInit /\ FmtOff /\ RestOff

Next ==
    \/ \E n \in IrcNicks, a \in IrcArgs : on_privmsg(n, "#room", a)
    \/ \E n \in IrcNicks, f \in Fishes : on_action(n, "#room", <<"a">>, f)
    \/ \E n \in XmppNicks, i \in BOOLEAN, b \in XmppBodies :
          on_muc_message(n, i, "room@muc", b)
    \/ \E u \in BabbleUsers, m \in BabbleCooked : on_sendmessage("7", u, m)
    \/ \E u \in TgUserIds : \E m \in TelegramYields(u, clock) :
          Telegram2FishroomThread(m)
    \/ \E u \in TgUserIds : TelegramSkips(u)
    \/ Fishroom2IRCThread
    \/ Fishroom2TelegramThread
    \/ Fishroom2XMPPThread
    \/ Fishroom2BabbleThread
    \/ ConsumersLoseBroker
    \/ RelayTake
    \/ RelayForward
    \/ BrokerFails
    \/ BrokerRecovers
    \/ \E d \in Directions, item \in CorruptItems : InjectCorrupt(d, item)

Spec == Init /\ [][Next]_vars

-----------------------------------------------------------------------------
(* The formatting pipeline: a RichText is rendered for IRC and the result    *)
(* parsed back; a string is parsed                                           *)

Flags == BOOLEAN \X BOOLEAN \X BOOLEAN

Colors ==
    {NoColor} \cup
    {Color(fg, bg) : fg \in 0..MaxColor, bg \in {NoBg} \cup 0..MaxColor}

Styles == {TextStyle(c, f[1], f[2], f[3]) : c \in Colors, f \in Flags}

\* the styles of the runs of a RichText of several runs
FewStyles ==
    { Normal,
      TextStyle(NoColor, TRUE, FALSE, FALSE),
      TextStyle(NoColor, FALSE, TRUE, TRUE),
      TextStyle(Color(1, NoBg), FALSE, FALSE, FALSE),
      TextStyle(Color(4, 5), FALSE, FALSE, FALSE),
      TextStyle(Color(12, 0), TRUE, FALSE, FALSE) }

RECURSIVE RunSeqs(_, _)
RunSeqs(R, n) ==
    IF n = 0 THEN {<<>>}
    ELSE LET shorter == RunSeqs(R, n - 1)
         IN shorter \cup {Append(t, r) : t \in shorter, r \in R}

\* run texts: empty, plain, starting with a digit, starting with a comma,
\* with a character of HTML
Texts == { <<>>, <<"a">>, <<"5">>, <<"5", "a">>, <<",", "5">>, <<"<", "a">> }
FewTexts == { <<>>, <<"a">>, <<"5">>, <<",", "5">>, <<"<">> }

\* one run of any style, or up to MaxRuns runs of a few styles
RichInputs ==
    {<<Run(ts, text)>> : ts \in Styles, text \in Texts}
    \cup RunSeqs({Run(ts, text) : ts \in FewStyles, text \in FewTexts},
                 MaxRuns)

RawInputs == StringsUpTo(Alphabet \cup CtrlBytes, MaxRawLen)

FmtInit ==
    \/ /\ fpc = "rich"
       /\ fr \in RichInputs
       /\ fs = <<>>
       /\ fwire = <<>>
       /\ fback = <<>>
       /\ fopt = DefaultArgs
    \/ /\ fpc = "raw"
       /\ fs \in RawInputs
       /\ fr = <<>>
       /\ fwire = <<>>
       /\ fback = <<>>
       /\ fopt = DefaultArgs

FmtRender ==
    /\ fpc = "rich"
    /\ fwire' = formatRichText(fr)
    /\ fpc' = "rendered"
    /\ UNCHANGED <<fr, fs, fback, fopt>>
    /\ UNCHANGED <<busVars, restVars>>

\* DiscourseBabbleHandle.formatRichText(fr)
BabbleRender ==
    /\ fpc = "rich"
    /\ fwire' = Babble_formatRichText(fr)
    /\ fpc' = "bbcode"
    /\ UNCHANGED <<fr, fs, fback, fopt>>
    /\ UNCHANGED <<busVars, restVars>>

\* Telegram.formatRichText(fr, escape)
TelegramRender(escape) ==
    /\ fpc = "rich"
    /\ fwire' = Telegram_formatRichText(fr, escape)
    /\ fopt' = [fopt EXCEPT !.escape = escape]
    /\ fpc' = "tghtml"
    /\ UNCHANGED <<fr, fs, fback>>
    /\ UNCHANGED <<busVars, restVars>>

FmtReparse ==
    /\ fpc = "rendered"
    /\ fback' = parseIRC(fwire)
    /\ fpc' = "reparsed"
    /\ UNCHANGED <<fr, fs, fwire, fopt>>
    /\ UNCHANGED <<busVars, restVars>>

FmtParse ==
    /\ fpc = "raw"
    /\ fback' = parseIRC(fs)
    /\ fpc' = "parsed"
    /\ UNCHANGED <<fr, fs, fwire, fopt>>
    /\ UNCHANGED <<busVars, restVars>>

FmtNext ==
    \/ FmtRender
    \/ BabbleRender
    \/ \E escape \in BOOLEAN : TelegramRender(escape)
    \/ FmtReparse
    \/ FmtParse

InitFmt == BusInit /\ FmtInit /\ RestOff

SpecFmt == InitFmt /\ [][FmtNext]_vars

-----------------------------------------------------------------------------
(* The text functions and the outbound send_msg of Telegram and of Babble:   *)
(* a text is escaped, a cooked fragment is unescaped, a message is sent      *)

HtmlMeta == {"&", "<", ">", "\"", "'"}

MdMeta == {"*", "#", "/", "(", ")", "[", "]", "_", BACKTICK}

TextAlphabet == HtmlMeta \cup MdMeta \cup {"a", "\\", ";"}

MdExample == <<"a", "*", "b", "_", "c">>

TextInputs == StringsUpTo(TextAlphabet, MaxTextLen) \cup {MdExample}

CookedExample ==
    <<"<", "p", ">", "H", "i", " ", "&", "a", "m", "p", ";", " ",
      "b", "y", "e", "<", "/", "p", ">">>

CookedPieces ==
    { <<"a">>, <<"<">>, <<">">>, <<"&">>, <<";">>,
      <<"<", "p", ">">>, <<"<", "/", "p", ">">>,
      <<"&", "l", "t", ";">>, <<"&", "g", "t", ";">>, <<"&", "l", "t">>,
      <<"&", "a", "m", "p", ";">>, <<"&", "#", "6", "0", ";">>,
      <<"&", "#", "x", "3", "E", ";">> }

RECURSIVE Concats(_, _)
Concats(P, n) ==
    IF n = 0 THEN {<<>>}
    ELSE LET shorter == Concats(P, n - 1)
         IN shorter \cup {t \o p : t \in shorter, p \in P}

\* a fragment with an escaped tag in it
CookedEscaped ==
    <<"<", "p", ">", "&", "l", "t", ";", "b", "&", "g", "t", ";",
      "<", "/", "p", ">">>

CookedInputs ==
    Concats(CookedPieces, MaxPieces) \cup {CookedExample, CookedEscaped}

SendContents ==
    { <<"a">>, <<"a", "*">>, <<"<", "b", ">">>, <<"<", "a", ">", "&">>,
      <<"@", "b", "o", "b", " ", "<">>,
      <<"b", "o", "b", ":", "[", "a", "]">> }

SendSenders ==
    { NoSender, Sender(<<>>), Sender(<<"b", "o", "b">>),
      Sender(<<"<", "i", ">">>), Sender(<<"[", "b", "]">>) }

SendReplies ==
    { NoReply,
      Reply(<<"b", "o", "b">>, <<"a", " ">>),
      Reply(<<"a", "l">>, <<"a", "b", "c", "d", "e", "f", "g">>),
      Reply(<<"[", "i", "]">>,
            <<"[", "u", "]", "a", "b", "a", "b", " ", "a", "b">>) }

SendRaws ==
    { NoRaw,
      [present |-> TRUE, channel |-> "IRC", mtype |-> "Text",
       media_url |-> NoUrl],
      [present |-> TRUE, channel |-> "XMPP", mtype |-> "Photo",
       media_url |-> Url(<<"u">>)] }

SendRichTexts ==
    { NoRichText,
      SomeRichText(<< Run(TextStyle(NoColor, TRUE, FALSE, FALSE),
                          <<"<", "a", ">">>),
                      Run(Normal, <<"&">>) >>) }

TextInit ==
    \/ /\ fpc = "text"
       /\ fs \in TextInputs
       /\ fr = <<>>
       /\ fwire = <<>>
       /\ fback = <<>>
       /\ fopt = DefaultArgs
    \/ /\ fpc = "cooked"
       /\ fs \in CookedInputs
       /\ fr = <<>>
       /\ fwire = <<>>
       /\ fback = <<>>
       /\ fopt = DefaultArgs
    \/ /\ fpc = "send"
       /\ fs \in SendContents
       /\ \E rich_text \in SendRichTexts :
             /\ rich_text.present => toPlain(rich_text.val) = fs
             /\ fr = rich_text.val
       /\ fwire = <<>>
       /\ fback = <<>>
       /\ \E sender \in SendSenders, reply \in SendReplies, raw \in SendRaws :
             fopt = [sender |-> sender, escape |-> TRUE, first |-> FALSE,
                     reply |-> reply,
                     raw |-> raw]

\* xss.md_escape(fs)
MdEscape ==
    /\ fpc = "text"
    /\ fwire' = md_escape(fs)
    /\ fpc' = "md"
    /\ UNCHANGED <<fr, fs, fback, fopt>>
    /\ UNCHANGED <<busVars, restVars>>

\* html.escape(fs), and html.unescape of the result
HtmlEscape ==
    /\ fpc = "text"
    /\ fwire' = html_escape(fs)
    /\ fback' = HtmlUnescape(html_escape(fs))
    /\ fpc' = "html"
    /\ UNCHANGED <<fr, fs, fopt>>
    /\ UNCHANGED <<busVars, restVars>>

\* xss.cooked_unescape(fs)
CookedUnescape ==
    /\ fpc = "cooked"
    /\ fwire' = cooked_unescape(fs)
    /\ fpc' = "uncooked"
    /\ UNCHANGED <<fr, fs, fback, fopt>>
    /\ UNCHANGED <<busVars, restVars>>

\* Telegram.send_msg(peer, fs, sender, escape, rich_text)
TelegramSend(escape) ==
    /\ fpc = "send"
    /\ fwire' = Telegram_send_msg(fs, fopt.sender, escape,
                                  IF fr = <<>> THEN NoRichText
                                  ELSE SomeRichText(fr))
    /\ fopt' = [fopt EXCEPT !.escape = escape]
    /\ fpc' = "tgsent"
    /\ UNCHANGED <<fr, fs, fback>>
    /\ UNCHANGED <<busVars, restVars>>

\* DiscourseBabbleHandle.send_msg(target, fs, sender, raw, reply_to,
\* reply_text)
BabbleSend ==
    /\ fpc = "send"
    /\ fwire' = Babble_send_msg(fs, fopt.sender, fopt.raw, fopt.reply)
    /\ fpc' = "bbsent"
    /\ UNCHANGED <<fr, fs, fback, fopt>>
    /\ UNCHANGED <<busVars, restVars>>

\* IRCHandle.send_msg(target, fs, sender, first, reply_to, reply_text,
\* rich_text)
IrcSend(first) ==
    /\ fpc = "send"
    /\ fwire' = IRC_send_msg(fs, fopt.sender, first, fopt.reply,
                             IF fr = <<>> THEN NoRichText
                             ELSE SomeRichText(fr))
    /\ fopt' = [fopt EXCEPT !.first = first]
    /\ fpc' = "ircsent"
    /\ UNCHANGED <<fr, fs, fback>>
    /\ UNCHANGED <<busVars, restVars>>

XmppSend(first) ==
    /\ fpc = "send"
    /\ fwire' = XMPP_send_msg(fs, fopt.sender, first, fopt.reply)
    /\ fopt' = [fopt EXCEPT !.first = first]
    /\ fpc' = "xmppsent"
    /\ UNCHANGED <<fr, fs, fback>>
    /\ UNCHANGED <<busVars, restVars>>

TextNext ==
    \/ MdEscape
    \/ HtmlEscape
    \/ CookedUnescape
    \/ \E escape \in BOOLEAN : TelegramSend(escape)
    \/ BabbleSend
    \/ \E first \in BOOLEAN : IrcSend(first)
    \/ \E first \in BOOLEAN : XmppSend(first)

\* the nick store when a text is sent: bob is known as bob_tg
NickKnown ==
    /\ mem = MemNickStore
    /\ redis = NickUsers
    /\ rets = [call |-> "none", mem |-> None, redis |-> None]
    /\ stk = NoStickers

InitText == BusInit /\ TextInit /\ TgOff /\ NickKnown /\ SendOff

SpecText == InitText /\ [][TextNext]_vars

-----------------------------------------------------------------------------
(* Properties of the formatting pipeline *)

NoCtrl(s) == \A i \in 1..Len(s) : s[i] \notin CtrlBytes

\* C9: parsing the IRC rendering of a RichText gives back its plain content:
\* toPlain(parseIRC(formatRichText(r))) = toPlain(r)
C9_RoundTripPlain ==
    fpc = "reparsed" => toPlain(fback) = toPlain(fr)

\* C10: a string without control bytes parses to exactly one run, of normal
\* style, whose text is the string
C10_PlainStringOneRun ==
    (fpc = "parsed" /\ NoCtrl(fs)) => fback = <<Run(Normal, fs)>>

C10_Witness ==
    /\ fpc = "parsed"
    /\ NoCtrl(fs)
    /\ Len(fs) >= 2
    /\ fs[1] = "5"
    /\ \E i \in 1..Len(fs) : fs[i] = ","

-----------------------------------------------------------------------------
(* Properties of the renderers *)

\* the first position of the element t in s, 0 when s has none
TokPos(s, t) ==
    IF \E i \in 1..Len(s) : s[i] = t
    THEN CHOOSE i \in 1..Len(s) : s[i] = t /\ \A k \in 1..(i - 1) : s[k] # t
    ELSE 0

TokCount(s, t) == Cardinality({i \in 1..Len(s) : s[i] = t})

\* the elements of outer that s has stand, pairwise, in the order of outer
InThisOrder(s, outer) ==
    \A a, b \in 1..Len(outer) :
        (a < b /\ TokPos(s, outer[a]) # 0 /\ TokPos(s, outer[b]) # 0)
            => TokPos(s, outer[a]) < TokPos(s, outer[b])

\* the pipeline holds the rendering of one run of non-empty text
OneRun(pc) == fpc = pc /\ Len(fr) = 1 /\ fr[1][2] # <<>>

\* C11 as stated: in the BBCode of a non-normal run the colour wrapper is the
\* outermost, then bold, then italic, and underline is the innermost
C11_ColourOutermost ==
    (OneRun("bbcode") /\ ~is_normal(fr[1][1])) =>
        /\ InThisOrder(fwire, <<"[color=", "[b]", "[i]", "[u]">>)
        /\ InThisOrder(fwire, <<"[/u]", "[/i]", "[/b]", "[/color]">>)

\* C11 amended: in the BBCode of a non-normal run each attribute of the style
\* has its wrapper, the run text is inside all of them, and the wrappers are
\* nested underline outermost, then italic, then bold, then the colour
\* wrappers innermost (background around foreground)
C11_UnderlineOutermost ==
    (OneRun("bbcode") /\ ~is_normal(fr[1][1])) =>
        LET ts == fr[1][1]
            text == fr[1][2]
            opens == <<"[u]", "[i]", "[b]", "[bgcolor=", "[color=">>
            closes == <<"[/color]", "[/bgcolor]", "[/b]", "[/i]", "[/u]">>
            nopen == Cardinality({a \in 1..5 : TokPos(fwire, opens[a]) # 0})
            first == IF has_color(ts) THEN TokPos(fwire, "[color=") + 3
                     ELSE nopen + 1
        IN  /\ InThisOrder(fwire, opens)
            /\ InThisOrder(fwire, closes)
            /\ (TokPos(fwire, "[u]") # 0) = ts.underline
            /\ (TokPos(fwire, "[i]") # 0) = ts.italic
            /\ (TokPos(fwire, "[b]") # 0) = ts.bold
            /\ (TokPos(fwire, "[color=") # 0) = ts.color.set
            /\ \A a \in 1..5 : TokCount(fwire, opens[a]) <= 1
            /\ SubSeq(fwire, first, first + Len(text) - 1) = text
            /\ \A a \in 1..5 :
                  /\ TokPos(fwire, opens[a]) < first
                  /\ (TokPos(fwire, opens[a]) # 0) = (TokPos(fwire, closes[6 - a]) # 0)
                  /\ TokPos(fwire, closes[6 - a]) # 0
                        => TokPos(fwire, closes[6 - a]) >= first + Len(text)

\* a run with all four attributes and a background was rendered: underline
\* opens the output and closes it
C11_Witness ==
    /\ OneRun("bbcode")
    /\ fr[1][1] = TextStyle(Color(4, 5), TRUE, TRUE, TRUE)
    /\ SubSeq(fwire, 1, 4) = <<"[u]", "[i]", "[b]", "[bgcolor=">>
    /\ fwire[Len(fwire)] = "[/u]"

\* the text of a run as Telegram.formatRichText embeds it
TgText == IF fopt.escape THEN html_escape(fr[1][2]) ELSE fr[1][2]

\* C12 as stated: a Telegram run is wrapped in the one style that wins by the
\* precedence bold > italic > colour > underline
C12_PrecedenceWithColour ==
    (fpc = "tghtml" /\ Len(fr) = 1) =>
        LET ts == fr[1][1]
        IN  /\ ts.bold => fwire = <<"<b>">> \o TgText \o <<"</b>">>
            /\ (~ts.bold /\ ts.italic)
                  => fwire = <<"<i>">> \o TgText \o <<"</i>">>
            /\ (~ts.bold /\ ~ts.italic /\ (ts.color.set \/ ts.underline))
                  => /\ Len(fwire) = Len(TgText) + 2
                     /\ SubSeq(fwire, 2, Len(fwire) - 1) = TgText
            /\ is_normal(ts) => fwire = TgText

\* C12 amended: a Telegram run is wrapped in at most one style, bold when the
\* run is bold, else italic when it is italic; colour and underline are not
\* expressed, a run that is neither bold nor italic is its text alone; every
\* style combination renders
C12_BoldThenItalic ==
    (fpc = "tghtml" /\ Len(fr) = 1) =>
        LET ts == fr[1][1]
        IN  /\ ts.bold => fwire = <<"<b>">> \o TgText \o <<"</b>">>
            /\ (~ts.bold /\ ts.italic)
                  => fwire = <<"<i>">> \o TgText \o <<"</i>">>
            /\ (~ts.bold /\ ~ts.italic) => fwire = TgText

\* a run that is bold, italic, underlined and coloured was rendered as bold
C12_Witness ==
    /\ fpc = "tghtml"
    /\ Len(fr) = 1
    /\ fr[1][1] = TextStyle(Color(4, 5), TRUE, TRUE, TRUE)
    /\ fr[1][2] = <<"a">>
    /\ fwire = <<"<b>", "a", "</b>">>

\* the run is normal, or has a colour and no other attribute
PlainOrColour(run) ==
    ~is_bold(run[1]) /\ ~is_italic(run[1]) /\ ~is_underline(run[1])

RECURSIVE EscapedTexts(_)
EscapedTexts(rich_text) ==
    IF rich_text = <<>> THEN <<>>
    ELSE html_escape(rich_text[1][2]) \o EscapedTexts(Tail(rich_text))

\* C26: Telegram.formatRichText of runs that are all normal or colour-only is
\* the concatenation, in run order, of the HTML-escaped texts of the runs: no
\* tag and no colour markup is added
C26_ColourRunsArePlain ==
    (fpc = "tghtml" /\ fopt.escape
        /\ \A i \in 1..Len(fr) : PlainOrColour(fr[i]))
    => fwire = EscapedTexts(fr)

C26_Witness ==
    /\ fpc = "tghtml"
    /\ fopt.escape
    /\ fr = << Run(TextStyle(Color(4, 5), FALSE, FALSE, FALSE), <<"<">>),
               Run(Normal, <<"a">>) >>
    /\ fwire = <<"&", "l", "t", ";", "a">>

\* C13: a colour with a foreground only renders as one colour wrapper, a
\* colour with foreground and background (0 included) as both: "fg,bg" after
\* the IRC colour code, a bgcolor wrapper around a color wrapper in BBCode
C13_ForegroundAndBackground ==
    LET ts == fr[1][1]
        text == fr[1][2]
        fg == ts.color.fg
        bg == ts.color.bg
        arg == IF bg # NoBg THEN FormatInt(fg) \o <<",">> \o FormatInt(bg)
               ELSE FormatInt(fg)
        p == TokPos(fwire, COLOR)
        c == TokPos(fwire, "[color=")
        b == TokPos(fwire, "[bgcolor=")
    IN  /\ (OneRun("rendered") /\ has_color(ts)) =>
              /\ p # 0
              /\ SubSeq(fwire, p + 1, Len(fwire)) = arg \o text \o <<RESET>>
        /\ (OneRun("bbcode") /\ has_color(ts)) =>
              /\ TokCount(fwire, "[color=") = 1
              /\ fwire[c + 1] = IRC_COLOR_RGB[fg + 1]
              /\ TokCount(fwire, "[bgcolor=") = (IF bg # NoBg THEN 1 ELSE 0)
              /\ bg # NoBg => (b # 0 /\ b < c /\ fwire[b + 1] = IRC_COLOR_RGB[bg + 1])

\* a RichText without its runs of empty text
RECURSIVE RemoveEmpty(_)
RemoveEmpty(r) ==
    IF r = <<>> THEN <<>>
    ELSE (IF r[1][2] = <<>> THEN <<>> ELSE <<r[1]>>) \o RemoveEmpty(Tail(r))

\* C14: in each of the three renderers the output for a RichText is the
\* output for the RichText without its runs of empty text
C14_EmptyRunsSkipped ==
    /\ fpc = "rendered" => fwire = formatRichText(RemoveEmpty(fr))
    /\ fpc = "bbcode" => fwire = Babble_formatRichText(RemoveEmpty(fr))
    /\ fpc = "tghtml" =>
          fwire = Telegram_formatRichText(RemoveEmpty(fr), fopt.escape)

\* the style in force right after the string s, as the IRC parser reads it
StyleAfter(s) ==
    LET runs == parseIRC(s \o <<"a">>)
    IN runs[Len(runs)][1]

\* C15: in the IRC rendering, the output of every run that is neither empty
\* nor normal ends with the reset code, and the style in force where the next
\* run starts is the normal one
C15_RunEndsWithReset ==
    fpc = "rendered" =>
        \A k \in 1..Len(fr) :
            (fr[k][2] # <<>> /\ ~is_normal(fr[k][1])) =>
                LET upto == formatRichText(SubSeq(fr, 1, k))
                IN  /\ upto = SubSeq(fwire, 1, Len(upto))
                    /\ upto[Len(upto)] = RESET
                    /\ StyleAfter(upto) = Normal

\* a bold run followed by a normal run was rendered
C15_Witness ==
    /\ fpc = "rendered"
    /\ Len(fr) = 2
    /\ fr[1] = Run(TextStyle(NoColor, TRUE, FALSE, FALSE), <<"a">>)
    /\ fr[2] = Run(Normal, <<"a">>)
    /\ fwire = <<BOLD, "a", RESET, "a">>

-----------------------------------------------------------------------------
(* Properties of the text functions *)

\* what the text says md_escape makes of one character
MdChar(c) ==
    IF c \in MdMeta THEN <<"\\", c>>
    ELSE IF c = "<" THEN <<"&", "l", "t", ";">>
    ELSE IF c = ">" THEN <<"&", "g", "t", ";">>
    ELSE <<c>>

RECURSIVE MdMap(_)
MdMap(text) ==
    IF text = <<>> THEN <<>> ELSE MdChar(text[1]) \o MdMap(Tail(text))

\* C17: md_escape maps a text character by character: a backslash goes before
\* each of * # / ( ) [ ] _ and the backtick, < and > become &lt; and &gt;,
\* every other character is kept; a*b_c becomes a\*b\_c
C17_CharByChar ==
    fpc = "md" =>
        /\ fwire = MdMap(fs)
        /\ (fs = MdExample => fwire = <<"a", "\\", "*", "b", "\\", "_", "c">>)

C17_Witness ==
    /\ fpc = "md"
    /\ fs = <<"<", "a", "_">>
    /\ fwire = <<"&", "l", "t", ";", "a", "\\", "_">>

\* s has a substring that matches <[^>]+>
HasTag(s) ==
    \E i \in 1..Len(s) : s[i] = "<" /\ i + 1 <= Len(s) /\ s[i + 1] # ">"
                         /\ \E j \in (i + 2)..Len(s) : s[j] = ">"

\* s with the tags that begin and end at the given positions cut out
RECURSIVE CutTags(_, _, _)
CutTags(s, i, ends) ==
    IF i > Len(s) THEN <<>>
    ELSE IF \E e \in ends : e[1] <= i /\ i <= e[2]
    THEN CutTags(s, i + 1, ends)
    ELSE <<s[i]>> \o CutTags(s, i + 1, ends)

\* the leftmost, non-overlapping matches of <[^>]+> in s, as <<first, last>>
TagSpans(s) ==
    LET IsTag(i, j) == /\ s[i] = "<"
                       /\ j >= i + 2
                       /\ s[j] = ">"
                       /\ \A k \in (i + 1)..(j - 1) : s[k] # ">"
        all == {e \in (1..Len(s)) \X (1..Len(s)) : IsTag(e[1], e[2])}
    IN {e \in all : ~\E f \in all : f[1] < e[1] /\ e[1] <= f[2]}

\* C18: cooked_unescape removes every tag from the fragment and unescapes the
\* entities of what remains; <p>Hi &amp; bye</p> gives Hi & bye; the tags are
\* stripped before the entities are unescaped, so an escaped bracket stays
C18_StripThenUnescape ==
    fpc = "uncooked" =>
        /\ fwire = HtmlUnescape(CutTags(fs, 1, TagSpans(fs)))
        /\ ~HasTag(CutTags(fs, 1, TagSpans(fs)))
        /\ (\A i \in 1..Len(fs) : fs[i] # "&") => ~HasTag(fwire)
        /\ (fs = CookedExample =>
               fwire = <<"H", "i", " ", "&", " ", "b", "y", "e">>)

C18_Witness ==
    /\ fpc = "uncooked"
    /\ fs = CookedEscaped
    /\ fwire = <<"<", "b", ">">>

NoHtmlMeta(text) == \A i \in 1..Len(text) : text[i] \notin HtmlMeta

\* C19: HTML escaping changes nothing in a text without & < > " ', and
\* unescaping the escaped text gives such a text back
C19_EscapeNoOp ==
    (fpc = "html" /\ NoHtmlMeta(fs)) => (fwire = fs /\ fback = fs)

C19_Witness ==
    /\ fpc = "html"
    /\ fs = <<"a", "/", ";">>
    /\ fwire = fs
    /\ fback = fs

\* the markup a user can type: a character of HTML, or of BBCode and Markdown
\* with no backslash before it
RawHtml(w) == \E i \in 1..Len(w) : w[i] \in {"<", ">"}

\* the "]" that fgcolor and bgcolor write after the colour
ClosesColor(w, i) ==
    w[i] = "]" /\ i >= 3 /\ w[i - 2] \in {"[color=", "[bgcolor="}

RawBBCode(w) ==
    \E i \in 1..Len(w) :
        \/ w[i] \in {"<", ">"}
        \/ /\ w[i] \in MdMeta
           /\ (i = 1 \/ w[i - 1] # "\\")
           /\ ~ClosesColor(w, i)

\* C16: the text sent to Telegram (with escape on) and to Babble holds no
\* markup character that comes from the content, the sender name, the reply
\* quote or the text of a run: markup is only what the adapter wrote itself
C16_UserTextEscaped ==
    /\ (fpc = "tgsent" /\ fopt.escape) => ~RawHtml(fwire)
    /\ fpc = "bbsent" => ~RawBBCode(fwire)

\* the palette has an entry for the colour, and for its background
InPalette(c) ==
    c.set => /\ c.fg \in 0..MaxColor
             /\ (c.fg + 1) \in DOMAIN IRC_COLOR_RGB
             /\ c.bg # NoBg => /\ c.bg \in 0..MaxColor
                               /\ (c.bg + 1) \in DOMAIN IRC_COLOR_RGB

RunsInPalette(rich_text) ==
    \A i \in 1..Len(rich_text) : InPalette(rich_text[i][1].color)

\* C21: the palette has 17 entries, the indices 0..16; every colour the
\* adapters construct for an outgoing message (the sender colour of
\* color_avail, the fixed colours 15 and 16) is one of them, so the lookup of
\* the BBCode renderer is defined for every colour that reaches it
C21_ColoursInPalette ==
    /\ DOMAIN IRC_COLOR_RGB = 1..(MaxColor + 1)
    /\ \A i \in DOMAIN color_avail : color_avail[i] \in 0..MaxColor
    /\ fpc \in {"send", "bbsent", "ircsent"} =>
          /\ RunsInPalette(
                 Babble_rich_message(fs, fopt.sender,
                                     Babble_reply_quote(fopt.reply),
                                     Babble_channel(fopt.raw)))
          /\ RunsInPalette(
                 IRC_rich_message(fs, fopt.sender,
                                  IRC_reply_quote(fopt.first, fopt.reply)))

\* a message with a sender was posted to Babble: the sender colour and the
\* colour 16 were looked up
C21_Witness ==
    /\ fpc = "bbsent"
    /\ fopt.sender = Sender(<<"b", "o", "b">>)
    /\ TokCount(fwire, "#009300") = 1
    /\ TokCount(fwire, "#888") = 2

EndsWith(s, t) ==
    Len(s) >= Len(t) /\ SubSeq(s, Len(s) - Len(t) + 1, Len(s)) = t

\* C25: what an adapter sends for a Message ends with the output of its
\* renderer on rich_text when the Message has one, and with content,
\* unchanged, when it has none
C25_RendererOrVerbatim ==
    /\ fpc = "tgsent" =>
          EndsWith(fwire, IF fr # <<>>
                          THEN Telegram_formatRichText(fr, fopt.escape)
                          ELSE fs)
    /\ fpc = "ircsent" =>
          EndsWith(fwire, IF fr # <<>> THEN formatRichText(fr) ELSE fs)

-----------------------------------------------------------------------------
(* Properties of the bus *)

Range(s) == {s[i] : i \in 1..Len(s)}

Pos(m, s) == CHOOSE i \in 1..Len(s) : s[i] = m

\* the direction a unit consumes from, and the one it publishes on
BusOf(c) == IF c = Core THEN im2fish ELSE WriterBus(c)
PublishBus(p) == IF p = Core THEN fish2im ELSE ReaderBus(p)

\* a strictly increasing sequence of positions
InOrder(s, ref) ==
    \A i, j \in 1..Len(s) :
        (i < j /\ s[i] \in Range(ref) /\ s[j] \in Range(ref))
            => Pos(s[i], ref) < Pos(s[j], ref)

\* C1: a consumer observes the Messages of its queue in the order they
\* arrived at the broker, and so two Messages of one producer in the order
\* that producer published them
C1_FifoOrder ==
    \A c \in Consumers :
        /\ Range(seen[c]) \subseteq Range(arrived[BusOf(c)])
        /\ InOrder(seen[c], arrived[BusOf(c)])
        /\ \A p \in Publishers : InOrder(seen[c], sent[p])

C1_Witness ==
    \E c \in Writers, p \in Readers :
        /\ Len(seen[c]) = 2
        /\ Len(sent[p]) = 2
        /\ seen[c][1] = sent[p][1]
        /\ seen[c][2] = sent[p][2]

RECURSIVE Decoded(_)
Decoded(items) ==
    IF items = <<>> THEN <<>>
    ELSE (IF Decodable(Head(items)) THEN <<loads(Head(items))>> ELSE <<>>)
         \o Decoded(Tail(items))

C4_DirectionsIndependent ==
    /\ [][/\ \A p \in Readers :
               attempts'[p] # attempts[p] => queue'[fish2im] = queue[fish2im]
          /\ attempts'[Core] # attempts[Core]
               => queue'[im2fish] = queue[im2fish]]_vars
    /\ [](\A c \in Consumers :
            Range(seen[c]) \subseteq Range(arrived[BusOf(c)]))

\* a writer has received a Message from fish2im while another Message, not
\* yet relayed, waits on im2fish
C4_Witness ==
    /\ \E c \in Writers : seen[c] # <<>>
    /\ queue[im2fish] # <<>>
    /\ Decodable(Head(queue[im2fish]))
    /\ loads(Head(queue[im2fish])) \notin Range(arrived[fish2im])

\* C5: with the broker reachable a reader's publish can always be taken and
\* appends to the queue, whatever the queue holds and whether or not any
\* consumer runs (the number of inbound events is bounded by MaxEvents)
C5_PublishNeverWaits ==
    (brokerUp /\ clock < MaxEvents) =>
        /\ \A u \in TgUserIds : \A m \in TelegramYields(u, clock) :
              running["Telegram2Fishroom"] =>
                  ENABLED (/\ Telegram2FishroomThread(m)
                           /\ queue'[im2fish] = Append(queue[im2fish], dumps(m)))
        /\ ENABLED (/\ on_muc_message("bob", TRUE, "room@muc", <<"/", "a">>)
                    /\ Len(queue'[im2fish]) = Len(queue[im2fish]) + 1)
        /\ ENABLED (/\ on_privmsg("alice", "#room", <<"a">>)
                    /\ Len(queue'[im2fish]) = Len(queue[im2fish]) + 1)
        /\ ENABLED (/\ on_sendmessage("7", "carol", <<"<", "p", ">", "a">>)
                    /\ Len(queue'[im2fish]) = Len(queue[im2fish]) + 1)

\* a publish is possible while an earlier Message is still queued and no
\* consumer loop runs
C5_Witness ==
    /\ brokerUp
    /\ clock < MaxEvents
    /\ queue[im2fish] # <<>>
    /\ \A c \in Consumers : ~running[c]
    /\ running["Telegram2Fishroom"]

\* C6: a publish tries the broker once; with the broker unreachable the
\* publisher gets BrokerUnavailable and no queue changes, with the broker
\* reachable the publish succeeds and its queue grows by the one item
C6_PublishOutcome ==
    [][\A p \in Publishers :
         attempts'[p] # attempts[p] =>
            /\ attempts'[p] = attempts[p] + 1
            /\ IF brokerUp
               THEN /\ perr'[p] = "ok"
                    /\ sent'[p] # sent[p]
                    /\ queue'[PublishBus(p)] =
                          Append(queue[PublishBus(p)],
                                 dumps(sent'[p][Len(sent'[p])]))
               ELSE /\ perr'[p] = "BrokerUnavailable"
                    /\ queue' = queue
                    /\ sent' = sent]_vars

\* the XMPP reader's publish has failed on an unreachable broker
C6_Witness ==
    /\ ~brokerUp
    /\ perr["XMPP2Fishroom"] = "BrokerUnavailable"
    /\ attempts["XMPP2Fishroom"] = 1
    /\ queue[im2fish] = <<>>

C8_RichTextMatchesContent ==
    \A p \in Readers : \A i \in 1..Len(sent[p]) :
        LET m == sent[p][i]
        IN m.rich_text.present =>
              /\ toPlain(m.rich_text.val) = m.content
              /\ ~(Len(m.rich_text.val) = 1 /\ is_normal(m.rich_text.val[1][1]))

C8_Witness ==
    /\ \E i \in 1..Len(sent["IRC2Fishroom"]) :
          sent["IRC2Fishroom"][i].rich_text.present
    /\ \E i \in 1..Len(sent["IRC2Fishroom"]) :
          /\ ~sent["IRC2Fishroom"][i].rich_text.present
          /\ sent["IRC2Fishroom"][i].mtype = "Text"

\* the Message is written by an identity its adapter leaves out
Blacklisted(m) ==
    \/ m.channel = "IRC" /\ m.sender \in IrcBlacklist
    \/ m.channel = "XMPP" /\ m.sender = XmppNick
    \/ m.channel = "DiscourseBabble" /\ m.sender = BabbleUsername
    \/ m.channel = "Telegram"
       /\ \E u \in TeleMe : m.opt.username = TgUserName(u)

\* C27: no Message written by a blacklisted IRC nick, by the XMPP bot's own
\* nick, by the Babble bot's own username or by a Telegram id of id_blacklist
\* is ever published on im2fish, and none is handed to publish either
C27_BlacklistNeverPublished ==
    /\ \A i \in 1..Len(arrived[im2fish]) : ~Blacklisted(arrived[im2fish][i])
    /\ \A p \in Readers : \A i \in 1..Len(sent[p]) : ~Blacklisted(sent[p][i])
    /\ \A i \in 1..Len(queue[im2fish]) :
          Decodable(queue[im2fish][i]) => ~Blacklisted(loads(queue[im2fish][i]))

\* inbound events were handled and no publish was so much as tried: the
\* events were of blacklisted identities
C27_Witness ==
    /\ clock = MaxEvents
    /\ \A p \in Publishers : attempts[p] = 0 /\ perr[p] = "none"
    /\ \A d \in Directions : queue[d] = <<>> /\ arrived[d] = <<>>
    /\ \A c \in Consumers : taken[c] = <<>>

-----------------------------------------------------------------------------
(* The two nick stores side by side: every call is made on a MemNickStore   *)
(* and on a RedisNickStore that both started empty.                         *)

\* user names, nicknames and display names: the empty name among them
NickNames == {<<>>, <<"a">>, <<"b", "o", "b">>}

\* a name as the caller passes it, and a name the caller may leave out
GivenNames == {Str(s) : s \in NickNames}
OptionalNames == GivenNames \cup {None}

NickGetNickname(user_id, username, display_name) ==
    LET m == Mem_get_nickname(mem, user_id, username, display_name)
        r == Redis_get_nickname(redis, user_id, username, display_name)
    IN /\ mem' = m.store
       /\ redis' = r.store
       /\ rets' = [call |-> "get_nickname", mem |-> m.ret, redis |-> r.ret]
       /\ UNCHANGED <<busVars, fmtVars, tgVars, sendVars, stk>>

NickSetNickname(user_id, nickname) ==
    LET m == Mem_set_nickname(mem, user_id, nickname)
        r == Redis_set_nickname(redis, user_id, nickname)
    IN /\ mem' = m.store
       /\ redis' = r.store
       /\ rets' = [call |-> "set_nickname", mem |-> m.ret, redis |-> r.ret]
       /\ UNCHANGED <<busVars, fmtVars, tgVars, sendVars, stk>>

NickSetUsername(nickname, username) ==
    LET m == Mem_set_username(mem, nickname, username)
        r == Redis_set_username(redis, nickname, username)
    IN /\ mem' = m.store
       /\ redis' = r.store
       /\ rets' = [call |-> "set_username", mem |-> m.ret, redis |-> r.ret]
       /\ UNCHANGED <<busVars, fmtVars, tgVars, sendVars, stk>>

NickGetUsername(nickname) ==
    LET m == Mem_get_username(mem, nickname)
        r == Redis_get_username(redis, nickname)
    IN /\ mem' = m.store
       /\ redis' = r.store
       /\ rets' = [call |-> "get_username", mem |-> m.ret, redis |-> r.ret]
       /\ UNCHANGED <<busVars, fmtVars, tgVars, sendVars, stk>>

NickNext ==
    \/ \E u \in TgUserIds : \E un \in OptionalNames : \E dn \in OptionalNames :
           NickGetNickname(u, un, dn)
    \/ \E u \in TgUserIds : \E n \in GivenNames : NickSetNickname(u, n)
    \/ \E n \in GivenNames : \E un \in GivenNames : NickSetUsername(n, un)
    \/ \E n \in GivenNames : NickGetUsername(n)

InitNick == BusInit /\ FmtOff /\ RestOff

SpecNick == InitNick /\ [][NickNext]_vars

\* C30: a MemNickStore and a RedisNickStore that started empty and were given
\* the same calls returned the same value from the last call, whichever of
\* get_nickname, set_nickname, set_username and get_username it was
C30_StoresAgree == rets.mem = rets.redis

\* get_username gives back, as a str, a user name that Redis holds as bytes
C30_Witness ==
    /\ rets = [call |-> "get_username", mem |-> Str(<<"a">>),
               redis |-> Str(<<"a">>)]
    /\ <<Bytes(<<"b", "o", "b">>), Bytes(<<"a">>)>> \in redis.usernames
    /\ <<Str(<<"b", "o", "b">>), Str(<<"a">>)>> \in mem.nickusers

\* the nickname a store holds for a user, None when it holds none
MemStored(user_id) == DictGet(mem.usernicks, user_id)
RedisStored(user_id) == Decode(DictGet(redis.nicks, EncodeId(user_id)))

\* the first of stored nickname, username, display name that is not empty,
\* "tg-<user_id>" when all are
Fallback(stored, user_id, username, display_name) ==
    IF Truth(stored) THEN stored
    ELSE IF Truth(username) THEN username
    ELSE IF Truth(display_name) THEN display_name
    ELSE TgDefault(user_id)

\* what a call of get_nickname has to leave behind, in both stores
GetNicknameDone(user_id, username, display_name) ==
    /\ Truth(rets'.mem)
    /\ Truth(rets'.redis)
    /\ rets'.mem = Fallback(MemStored(user_id), user_id, username,
                            display_name)
    /\ rets'.redis = Fallback(RedisStored(user_id), user_id, username,
                              display_name)
    /\ (Truth(MemStored(user_id))
           => DictGet(mem'.usernicks, user_id) = MemStored(user_id))
    /\ (Truth(RedisStored(user_id))
           => Decode(DictGet(redis'.nicks, EncodeId(user_id)))
                  = RedisStored(user_id))
    /\ (~Truth(MemStored(user_id)) /\ Truth(username)
           => DictGet(mem'.usernicks, user_id) = username)
    /\ (~Truth(RedisStored(user_id)) /\ Truth(username)
           => Decode(DictGet(redis'.nicks, EncodeId(user_id))) = username)
    /\ (Truth(username)
           => /\ Mem_get_username(mem', rets'.mem).ret = username
              /\ Redis_get_username(redis', rets'.redis).ret = username)

\* C31: get_nickname never returns an empty value; it returns the stored
\* nickname if there is one, else the username, which it then stores as the
\* nickname, else the display name, else "tg-<user_id>"; a stored nickname
\* stays whatever the username of a later call; and after a call with a
\* username, get_username of the nickname returned gives that username
C31_NicknameFallback ==
    [][\A u \in TgUserIds : \A un \in OptionalNames : \A dn \in OptionalNames :
           NickGetNickname(u, un, dn) => GetNicknameDone(u, un, dn)]_vars

\* user 1 has the nickname bob and is seen with the username a: bob is
\* returned, and bob now stands for a
C31_Witness ==
    /\ rets = [call |-> "get_nickname", mem |-> Str(<<"b", "o", "b">>),
               redis |-> Str(<<"b", "o", "b">>)]
    /\ <<1, Str(<<"b", "o", "b">>)>> \in mem.usernicks
    /\ <<Str(<<"b", "o", "b">>), Str(<<"a">>)>> \in mem.nickusers
    /\ <<Bytes(<<"b", "o", "b">>), Bytes(<<"a">>)>> \in redis.usernames

-----------------------------------------------------------------------------
(* The Telegram adapter: Telegram._flush and Telegram.message_stream against *)
(* a server that numbers its updates upwards, and the writer's send_msg.     *)

MaxUpdates == 2

\* range(3) of _flush
FlushAttempts == 3

\* what a getUpdates request can come to: no response (_must_post gives
\* None), a body that is not JSON, a JSON body with ok false, one with ok true
PostOutcomes == {"fail", "garbage", "notok", "ok"}

\* the updates the server can hold under one update_id: a message, an edited
\* message and a message of the bot itself, an update that is neither a
\* message nor an edited message, and four commands
UpdateTexts ==
    { <<"/", "N", "i", "c", "k", " ", "b", "o", "b">>,
      <<"/", "n", "i", "c", "k">>,
      <<"/", "n", "i", "c", "k", " ", "!">>,
      <<"/", "h", "e", "l", "p">> }

UpdatesOf(id) ==
    { [update_id |-> id, kind |-> "message", user_id |-> 1,
       text |-> <<"a">>],
      [update_id |-> id, kind |-> "edited_message", user_id |-> 1,
       text |-> <<"a">>],
      [update_id |-> id, kind |-> "message", user_id |-> 2,
       text |-> <<"a">>],
      [update_id |-> id, kind |-> "channel_post", user_id |-> 0,
       text |-> <<>>] }
    \cup { [update_id |-> id, kind |-> "message", user_id |-> 1,
            text |-> t] : t \in UpdateTexts }

\* from_info["username"] and the display name of a Telegram user
TeleUserName(user_id) ==
    IF user_id \in TeleMe THEN Str(<<"f", "i", "s", "h">>)
    ELSE Str(<<"t", "g">>)

TeleDisplayName(user_id) == Str(<<"T", "g">>)

\* getUpdates on the server side: the updates held whose update_id is at
\* least the offset, all of them when the request carries no offset
Pending(held, off) ==
    SelectSeq(held, LAMBDA u : off = NoOffset \/ u.update_id >= off)

\* an offset that stays on the update just taken
NextOffset_Same(update) == update.update_id

\* offset = update["update_id"] + 1
NextOffset(update) == update.update_id + 1

\* if retry == 3, inside for retry in range(3)
FlushRaises(retry) == retry = FlushAttempts

\* return of _flush when a response came: 0 or the latest update_id + 1;
\* nothing is returned, so None, when ok is not True
FlushReturn(outcome, result) ==
    IF outcome # "ok" THEN NoOffset
    ELSE IF result = <<>> THEN 0
    ELSE result[Len(result)].update_id + 1

\* str.split(): the words of a text, separated by white space
RECURSIVE Split(_)
Split(s) ==
    IF s = <<>> THEN <<>>
    ELSE IF IsSpace(s[1]) THEN Split(Tail(s))
    ELSE LET n == RunUpTo(s, 1, {j \in 1..Len(s) : IsSpace(s[j])})
         IN <<SubSeq(s, 1, n)>> \o Split(SubSeq(s, n + 1, Len(s)))

\* str.lower()
UpperCase == <<"A", "B", "C", "D", "E", "F", "G", "H", "I", "J", "K", "L", "M",
               "N", "O", "P", "Q", "R", "S", "T", "U", "V", "W", "X", "Y", "Z">>
LowerCase == <<"a", "b", "c", "d", "e", "f", "g", "h", "i", "j", "k", "l", "m",
               "n", "o", "p", "q", "r", "s", "t", "u", "v", "w", "x", "y", "z">>

LowerChar(c) ==
    IF \E k \in 1..Len(UpperCase) : UpperCase[k] = c
    THEN LowerCase[CHOOSE k \in 1..Len(UpperCase) : UpperCase[k] = c]
    ELSE c

Lower(s) == [k \in 1..Len(s) |-> LowerChar(s[k])]

\* the answers of try_set_nick
HumanNick ==
    <<"U", "s", "e", " ", "a", " ", "h", "u", "m", "a", "n", "'", "s", " ",
      "n", "i", "c", "k", " ", "n", "a", "m", "e", ",", " ", "p", "l", "e",
      "a", "s", "e", ".">>

InvalidCommand ==
    <<"I", "n", "v", "a", "l", "i", "d", " ", "C", "o", "m", "m", "a", "n",
      "d", ",", " ", "u", "s", "e", " ", "'", "/", "n", "i", "c", "k", " ",
      "n", "i", "c", "k", "n", "a", "m", "e", "'", "t", "o", " ", "c", "h",
      "a", "n", "g", "e", " ", "n", "i", "c", "k", "n", "a", "m", "e", ".">>

\* "Changed nickname to '%s'" % nick
ChangedNickname(nick) ==
    <<"C", "h", "a", "n", "g", "e", "d", " ", "n", "i", "c", "k", "n", "a",
      "m", "e", " ", "t", "o", " ", "'">> \o nick \o <<"'">>

\* a try_set_nick that leaves every command to the bus
try_set_nick_Pass(content) ==
    [handled |-> FALSE, nick |-> <<>>, answer |-> <<>>]

\* Telegram.try_set_nick: whether it returns True, the nick it stores (<<>>
\* when it stores none) and the text it sends to the chat
try_set_nick(content) ==
    LET tmp == Split(content)
        cmd == Lower(Tail(tmp[1]))
        args == Tail(tmp)
    IN  IF tmp = <<>> \/ cmd # <<"n", "i", "c", "k">>
        THEN [handled |-> FALSE, nick |-> <<>>, answer |-> <<>>]
        ELSE IF Len(args) # 1
        THEN [handled |-> TRUE, nick |-> <<>>, answer |-> InvalidCommand]
        ELSE IF ~IsWord(args[1][1])
        THEN [handled |-> TRUE, nick |-> <<>>, answer |-> HumanNick]
        ELSE [handled |-> TRUE, nick |-> args[1],
              answer |-> ChangedNickname(args[1])]

\* the MessageType of a text message
TeleMtype(text) == IF is_cmd(text) THEN "Command" ELSE "Text"

\* the server receives an update and gives it the next update_id
NewUpdate(u) ==
    /\ tpc # "off"
    /\ server.next <= MaxUpdates
    /\ u \in UpdatesOf(server.next)
    /\ server' = [next |-> server.next + 1, held |-> Append(server.held, u)]
    /\ UNCHANGED <<tpc, offset, tries, texc, yielded, resp, twire>>
    /\ UNCHANGED <<busVars, fmtVars, nickVars, sendVars>>

\* _flush, one turn of its loop and, once the loop is left, the rest of it
FlushPost(outcome) ==
    /\ tpc = "flush"
    /\ tries' = tries + 1
    /\ resp' = [outcome |-> outcome,
                result |-> IF outcome = "ok" THEN server.held ELSE <<>>]
    /\ IF outcome = "fail"
       THEN IF FlushRaises(tries)
            THEN /\ tpc' = "dead"
                 /\ texc' = "Telegram API Server Error"
                 /\ UNCHANGED offset
            ELSE IF tries + 1 < FlushAttempts
            THEN UNCHANGED <<tpc, texc, offset>>
            \* the loop ends with r None, and r.text is evaluated
            ELSE /\ tpc' = "dead"
                 /\ texc' = "AttributeError"
                 /\ UNCHANGED offset
       ELSE IF outcome = "garbage"
       THEN /\ tpc' = "dead"
            /\ texc' = "JSONDecodeError"
            /\ UNCHANGED offset
       ELSE /\ tpc' = "poll"
            /\ offset' = FlushReturn(outcome, resp'.result)
            /\ UNCHANGED texc
    /\ UNCHANGED <<server, yielded, twire>>
    /\ UNCHANGED <<busVars, fmtVars, nickVars, sendVars>>

\* message_stream, one getUpdates of its loop up to the for statement
Poll(outcome) ==
    /\ tpc = "poll"
    /\ LET result == IF outcome = "ok" THEN Pending(server.held, offset)
                     ELSE <<>>
       IN /\ resp' = [outcome |-> outcome, result |-> result]
          /\ server' = IF outcome = "fail" THEN server
                       ELSE [server EXCEPT
                                !.held = Pending(server.held, offset)]
          /\ tpc' = IF result # <<>> THEN "update" ELSE "poll"
    /\ UNCHANGED <<offset, tries, texc, yielded, twire>>
    /\ UNCHANGED <<busVars, fmtVars, nickVars, sendVars>>

\* message_stream, one turn of for update in ret["result"]
TakeUpdate ==
    /\ tpc = "update"
    /\ LET update == Head(resp.result)
           rest == Tail(resp.result)
           user_id == update.user_id
           cmd == try_set_nick(update.text)
           got == Redis_get_nickname(redis, user_id, TeleUserName(user_id),
                                     TeleDisplayName(user_id))
       IN /\ resp' = [resp EXCEPT !.result = rest]
          /\ tpc' = IF rest # <<>> THEN "update" ELSE "poll"
          /\ offset' = NextOffset(update)
          /\ IF update.kind \notin {"message", "edited_message"}
                \/ user_id \in TeleMe
             THEN UNCHANGED <<redis, yielded, twire>>
             ELSE IF TeleMtype(update.text) = "Command" /\ cmd.handled
             \* try_set_nick answers the sender and the update is dropped
             THEN /\ redis' = IF cmd.nick # <<>>
                              THEN Redis_set_nickname(redis, user_id,
                                                      Str(cmd.nick)).store
                              ELSE redis
                  /\ twire' = [by |-> "reader", content |-> cmd.answer,
                               text |-> Telegram_send_msg(
                                   cmd.answer, NoSender, TRUE, NoRichText)]
                  /\ UNCHANGED yielded
             ELSE /\ redis' = got.store
                  /\ yielded' = Append(yielded,
                         [update_id |-> update.update_id,
                          sender |-> got.ret,
                          mtype |-> TeleMtype(update.text)])
                  /\ UNCHANGED twire
    /\ UNCHANGED <<tries, texc, server, mem, rets, stk>>
    /\ UNCHANGED <<busVars, fmtVars, sendVars>>

\* the contents the writer unit is handed
TgContents == { <<"@", "b", "o", "b">>, <<"a">> }

\* Fishroom2TelegramThread: send_msg for one Message of the bus
TgSend(content) ==
    /\ tpc # "off"
    /\ twire' = [by |-> "writer", content |-> content,
                 text |-> Telegram_send_msg(content, NoSender, TRUE,
                                            NoRichText)]
    /\ UNCHANGED <<tpc, offset, tries, texc, server, yielded, resp>>
    /\ UNCHANGED <<busVars, fmtVars, nickVars, sendVars>>

TgNext ==
    \/ \E u \in UpdatesOf(server.next) : NewUpdate(u)
    \/ \E o \in PostOutcomes : FlushPost(o)
    \/ \E o \in PostOutcomes : Poll(o)
    \/ TakeUpdate
    \/ \E c \in TgContents : TgSend(c)

\* message_stream is called; the server may hold an update already
TgInit ==
    /\ tpc = "flush"
    /\ offset = NoOffset
    /\ tries = 0
    /\ texc = "none"
    /\ server \in {NoServer} \cup
           {[next |-> 2, held |-> <<u>>] : u \in UpdatesOf(1)}
    /\ yielded = <<>>
    /\ resp = NoResponse
    /\ twire = NoText

InitTg == BusInit /\ FmtOff /\ TgInit /\ NickOff /\ SendOff

SpecTg == InitTg /\ [][TgNext]_vars

\* C29: _flush makes at most three getUpdates requests, makes no further one
\* after a request that got a response, and ends in the exception
\* 'Telegram API Server Error' when all three got none
C29_FlushGivesUp ==
    /\ tries <= FlushAttempts
    /\ (tpc = "flush" /\ tries > 0 => resp.outcome = "fail")
    /\ (tries = FlushAttempts /\ resp.outcome = "fail" /\ tpc = "dead"
            => texc = "Telegram API Server Error")

\* the update ids of the Messages yielded
YieldedIds == [i \in 1..Len(yielded) |-> yielded[i].update_id]

NoDuplicates(ids) ==
    \A i \in 1..Len(ids) : \A j \in 1..Len(ids) : ids[i] = ids[j] => i = j

\* C28: the offset of message_stream never decreases; taking an update from a
\* response sets it to that update's update_id + 1; a poll that fails, is not
\* JSON or is not ok leaves it as it was; no update_id is yielded twice
C28_OffsetForward ==
    /\ [](NoDuplicates(YieldedIds))
    /\ [][/\ offset' >= offset
          /\ (tpc = "update" /\ resp' # resp
                 => offset' = Head(resp.result).update_id + 1)
          /\ (tpc = "poll" /\ tpc' = "poll" => offset' = offset)]_vars

\* two messages were taken from a response and yielded, and the offset is
\* past both of them
C28_Witness ==
    /\ YieldedIds = <<1, 2>>
    /\ offset = 3
    /\ tpc = "poll"
    /\ server.held = <<>>
    /\ server.next = 3

\* C22: the writer unit of the Telegram adapter shares nothing with the reader
\* unit: the text it sends for a content is the one send_msg gives with the
\* nick store the adapter was built with, whatever the reader has done since
C22_WriterApart ==
    twire.by = "writer"
        => twire.text = Telegram_msg_tmpl(NoSender, html_escape(twire.content))

\* the update that TakeUpdate takes, and what the claim says of its text
Taken == Head(resp.result)
TakenWords == Split(Taken.text)

FromUser ==
    /\ tpc = "update"
    /\ Taken.kind \in {"message", "edited_message"}
    /\ Taken.user_id \notin TeleMe

IsNickCommand ==
    /\ FromUser
    /\ is_cmd(Taken.text)
    /\ Lower(Tail(TakenWords[1])) = <<"n", "i", "c", "k">>

ValidNick ==
    IsNickCommand /\ Len(TakenWords) = 2 /\ IsWord(TakenWords[2][1])

Yields == Len(yielded') = Len(yielded) + 1

-----------------------------------------------------------------------------
(* Sending: what a send_msg can come to in each writer unit, and the pause   *)
(* that follows a send.  run_threads gives every unit a thread of its own.   *)

\* the reader unit of the adapter of a writer unit
ReaderOf(w) ==
    CASE w = "Fishroom2IRC" -> "IRC2Fishroom"
      [] w = "Fishroom2Telegram" -> "Telegram2Fishroom"
      [] w = "Fishroom2XMPP" -> "XMPP2Fishroom"
      [] w = "Fishroom2Babble" -> "Babble2Fishroom"

\* a sleep that stops the whole adapter, its reader included
Blocks_Process(w) == {w, ReaderOf(w)}

\* time.sleep(0.5) stops the thread that calls it: the units a pause of
\* writer w keeps from taking a step
Blocks(w) == {w}

\* unit u is in nobody's pause
Free(u) == \A w \in Writers : pausing[w] => u \notin Blocks(w)

\* what the transport call of send_msg can come to.  IRC: privmsg goes
\* through, or raises ServerNotConnectedError (after which reconnect() goes
\* through or raises ServerConnectionError), or raises InvalidCharacters.
\* Telegram: requests.post inside _must_post returns, times out or raises.
\* Babble: requests.post returns a response, of whatever status, or raises.
SendOutcomes(w) ==
    CASE w = "Fishroom2IRC" ->
            {"ok", "ServerNotConnectedError", "InvalidCharacters",
             "ServerNotConnectedError, ServerConnectionError"}
      [] w = "Fishroom2Telegram" -> {"ok", "Timeout", "RequestException"}
      [] w = "Fishroom2XMPP" -> {"ok"}
      [] w = "Fishroom2Babble" -> {"ok", "HTTP 500", "ConnectionError"}

\* the sends that did not deliver the message
SendFailures ==
    UNION {SendOutcomes(w) : w \in Writers} \ {"ok"}

\* the outcome leaves send_msg as an exception: IRC catches the two errors of
\* privmsg but not the one of reconnect(); _must_post catches everything;
\* do_send_request has no try
Raises(w, outcome) ==
    \/ w = "Fishroom2IRC"
         /\ outcome = "ServerNotConnectedError, ServerConnectionError"
    \/ w = "Fishroom2Babble" /\ outcome = "ConnectionError"

\* send_msg reaches its time.sleep(0.5)
Sleeps(w, outcome) ==
    w \in {"Fishroom2IRC", "Fishroom2Babble"} /\ ~Raises(w, outcome)

\* one turn of the loop of writer w: it takes a Message from the bus and
\* forwards it; an exception out of send_msg ends the loop
WriterForwards(w, outcome) ==
    /\ Free(w)
    /\ outcome \in SendOutcomes(w)
    /\ ConsumerTurn(w, WriterBus(w))
    /\ lastOut' = [lastOut EXCEPT ![w] = outcome]
    /\ pausing' = [pausing EXCEPT ![w] = Sleeps(w, outcome)]
    /\ running' = [running EXCEPT ![w] = ~Raises(w, outcome)]
    /\ UNCHANGED <<brokerUp, clock, arrived, sent, perr, attempts, hold>>
    /\ UNCHANGED <<fmtVars, tgVars, nickVars>>

\* the 0.5 s are over
PauseEnds(w) ==
    /\ pausing[w]
    /\ pausing' = [pausing EXCEPT ![w] = FALSE]
    /\ UNCHANGED lastOut
    /\ UNCHANGED <<busVars, fmtVars, tgVars, nickVars>>

\* the steps of the other units, each taken by a unit that is free
ReaderReceives ==
    \/ /\ Free("IRC2Fishroom")
       /\ \E n \in IrcNicks, a \in IrcArgs : on_privmsg(n, "#room", a)
    \/ /\ Free("Babble2Fishroom")
       /\ \E u \in BabbleUsers, m \in BabbleCooked : on_sendmessage("7", u, m)

CoreTakes == Free(Core) /\ RelayTake

CoreForwards == Free(Core) /\ RelayForward

SendNext ==
    \/ ReaderReceives
    \/ CoreTakes
    \/ CoreForwards
    \/ \E w \in Writers : \E o \in SendOutcomes(w) : WriterForwards(w, o)
    \/ \E w \in Writers : PauseEnds(w)

InitSend == BusInit /\ FmtOff /\ RestOff

SpecSend == InitSend /\ [][SendNext]_vars

C24_FailureKeepsLoop ==
    \A w \in Writers : lastOut[w] \in SendFailures => running[w]

-----------------------------------------------------------------------------
(* upload_sticker called again and again on one sticker store *)

\* the file ids of three stickers; the first two are the same picture
FileIds == {Str(<<"f", "1">>), Str(<<"f", "2">>), Str(<<"f", "3">>)}

FileData(file_id) ==
    IF file_id = Str(<<"f", "3">>) THEN Bytes(<<"q">>) ELSE Bytes(<<"p">>)

\* what upload_image returns: None, or the text of the response, which
\* VimCN.upload_image strips and which may then be empty
UploadResults == {None, Str(<<>>), Str(<<"u", "1">>), Str(<<"u", "2">>)}

\* one call of upload_sticker; stk.done collects the <<file id, URL>> of the
\* calls that uploaded the sticker and returned a URL
UploadSticker(file_id, downloaded, url) ==
    /\ LET r == Telegram_upload_sticker(stk.store, stk.photo_store, file_id,
                    IF downloaded THEN FileData(file_id) ELSE None, url)
       IN stk' = [store |-> r.store, photo_store |-> stk.photo_store,
                  file_id |-> file_id, url |-> r.url, err |-> r.err,
                  uploaded |-> r.uploaded,
                  done |-> IF r.uploaded /\ r.url # None
                           THEN stk.done \cup {<<file_id, r.url>>}
                           ELSE stk.done]
    /\ UNCHANGED <<mem, redis, rets>>
    /\ UNCHANGED <<busVars, fmtVars, tgVars, sendVars>>

StickerNext ==
    \E f \in FileIds : \E d \in BOOLEAN : \E u \in UploadResults :
        UploadSticker(f, d, u)

\* the adapter is built with or without a photo store
StickerInit ==
    /\ mem = MemNickStore
    /\ redis = RedisNickStore
    /\ rets = [call |-> "none", mem |-> None, redis |-> None]
    /\ stk \in {[NoStickers EXCEPT !.photo_store = b] : b \in BOOLEAN}

InitSticker == BusInit /\ FmtOff /\ TgOff /\ StickerInit /\ SendOff

SpecSticker == InitSticker /\ [][StickerNext]_vars

\* the store maps the file id and the digest of its data to the URL returned
Cached(store, file_id, url) ==
    /\ DictGet(store, Encode(file_id)) = Encode(url)
    /\ DictGet(store, Encode(Md5(FileData(file_id)))) = Encode(url)

\* what a call of upload_sticker has to satisfy, given the earlier calls in
\* urls that uploaded a sticker and returned a URL
StickerCallDone(urls, file_id, downloaded) ==
    /\ (stk'.uploaded /\ stk'.url # None
           => Cached(stk'.store, file_id, stk'.url))
    /\ \A e \in urls :
           (e[1] = file_id
               \/ (FileData(e[1]) = FileData(file_id) /\ downloaded))
           => stk'.url = e[2] /\ ~stk'.uploaded
    /\ (stk'.url = None => stk'.store = stk.store)

\* C32: after upload_sticker(f) has uploaded a sticker and returned URL u the
\* store maps f and the md5 of the data to u, a later upload_sticker for f, or
\* for a file id with the same data, returns u without a call of
\* upload_image, and a failed download or upload leaves the store unchanged
C32_StickerIdempotent ==
    [][\A f \in FileIds : \A d \in BOOLEAN : \A u \in UploadResults :
           UploadSticker(f, d, u) => StickerCallDone(stk.done, f, d)]_vars

\* the same holds of every call when only the earlier calls that returned a
\* URL that is not empty are counted
StickerIdempotent_NonEmpty ==
    [][\A f \in FileIds : \A d \in BOOLEAN : \A u \in UploadResults :
           UploadSticker(f, d, u)
               => StickerCallDone({e \in stk.done : Truth(e[2])}, f, d)]_vars

\* f1 was uploaded and gave u1; the call for f2, the same picture, returned
\* u1 from the store
C32_Witness ==
    /\ <<Str(<<"f", "1">>), Str(<<"u", "1">>)>> \in stk.done
    /\ stk.file_id = Str(<<"f", "2">>)
    /\ stk.url = Str(<<"u", "1">>)
    /\ ~stk.uploaded

-----------------------------------------------------------------------------
(* The reply quote of the IRC and XMPP send_msg *)

\* t occurs in s as a run of consecutive elements
Contains(s, t) ==
    \E i \in 0..(Len(s) - Len(t)) : SubSeq(s, i + 1, i + Len(t)) = t

\* the quote for a reply: reply_text whole when it has at most limit
\* characters, else its first limit characters and "..."
ReplyQuote(reply, limit) ==
    <<"[Re ">> \o reply.to \o <<": ">>
    \o (IF Len(reply.text) > limit
        THEN SubSeq(reply.text, 1, limit) \o <<".", ".", ".">>
        ELSE reply.text)
    \o <<"]:tmpl">>

QuoteLimit == IF fpc = "ircsent" THEN 8 ELSE 5

\* C33: the text sent by the IRC and the XMPP send_msg contains the reply
\* quote, cut after 8 (IRC) or 5 (XMPP) characters of reply_text, when first
\* is true and reply_text is given, and no quote otherwise
C33_ReplyQuote ==
    fpc \in {"ircsent", "xmppsent"} =>
        IF fopt.first /\ fopt.reply.present
        THEN Contains(fwire, ReplyQuote(fopt.reply, QuoteLimit))
        ELSE TokCount(fwire, "[Re ") = 0

====
